---- MODULE Spec2Model ----
(***************************************************************************)
(* A model of the retrieval service of agentic-ai-rag-benchmark:           *)
(*   rag_service/retriever.py  Retriever (FAISS index + parallel lists)    *)
(*   rag_service/ingest.py     chunk_text                                  *)
(*   rag_service/app/api.py    chunk_text of the HTTP service              *)
(* Python lists are sequences (Python position p is TLA+ position p + 1),  *)
(* Python dicts are sequences of <<key, value>> pairs in insertion order,  *)
(* Python strings are strings, text to be chunked is a sequence of         *)
(* one-character strings.                                                  *)
(***************************************************************************)
EXTENDS Integers, Sequences, FiniteSets, TLC

VARIABLES
    self,       \* the Retriever object: alive, index, doc_ids, metadata, embedding_dim
    disk,       \* the two companion files of the index name
    now,        \* time.time(), in whole seconds
    ret,        \* what the last call returned or raised
    persisted,  \* history: the content written by the last save_index that completed
    crashed,    \* history: the process has died once
    threads,    \* concurrent callers of one Retriever: position and locals
    ck,         \* one run of chunk_text: arguments, loop variables, result
    processed,  \* the processed-documents directory of ingest.py, and its callers' history
    emb,        \* an Embedder in its environment, and its call in progress
    app         \* the module-level state of a service: the store of app/api.py and its
                \* last response, or the agent_runners of agent_runner_app.py

vars == <<self, disk, now, ret, persisted, crashed, threads, ck, processed, emb, app>>

(***************************************************************************)
(* Bounds of the model.                                                    *)
(***************************************************************************)
MaxChunks == 2      \* vectors an index may hold in the model
MaxDocs == 2        \* documents in one add_documents call
MaxTopK == 3        \* largest top_k requested
MaxTextLen == 5     \* longest text given to chunk_text
MaxChunkSize == 3   \* largest chunk_size given to chunk_text
MaxOverlap == 3     \* largest overlap given to chunk_text
MaxCalls == 1       \* calls each concurrent caller makes
MaxTime == 1        \* seconds the clock advances
MaxIngests == 2     \* documents the ingest functions are given
MaxEmbedCalls == 1  \* embed_text calls on one Embedder
MaxRequests == 3    \* requests the HTTP service answers
MaxStored == 4      \* chunks the HTTP service's store holds

Texts == {"a", "b"}                 \* chunk texts
Queries == {"a", "b", "c"}          \* query strings
DocIds == {"d1", "d2"}              \* document ids
Dims == {1, 2}                      \* embedding widths of the configurable models
DocMetadatas == {<< <<"source", "s">> >>}  \* metadata of a document
TextMetadatas == {<<>>}                     \* metadata given with a text
Threads == {"t1", "t2"}

Min(a, b) == IF a <= b THEN a ELSE b

Max(a, b) == IF a >= b THEN a ELSE b

RECURSIVE SeqsUpTo(_, _)
SeqsUpTo(S, n) ==
    IF n = 0 THEN {<<>>}
    ELSE LET shorter == SeqsUpTo(S, n - 1)
         IN  shorter \cup {Append(q, x) : q \in {p \in shorter : Len(p) = n - 1}, x \in S}

IsPrefix(p, q) == Len(p) <= Len(q) /\ SubSeq(q, 1, Len(p)) = p

(***************************************************************************)
(* dict: d.get(k, default), d[k] = v, d.pop(k)                             *)
(***************************************************************************)
DictHas(d, k) == \E i \in 1..Len(d) : d[i][1] = k

DictGet(d, k, default) ==
    IF DictHas(d, k) THEN d[CHOOSE i \in 1..Len(d) : d[i][1] = k][2] ELSE default

DictSet(d, k, v) ==
    IF DictHas(d, k)
    THEN [i \in 1..Len(d) |-> IF d[i][1] = k THEN <<k, v>> ELSE d[i]]
    ELSE Append(d, <<k, v>>)

DictPop(d, k) == SelectSeq(d, LAMBDA p : p[1] # k)

(***************************************************************************)
(* Embedder.embed_text: one vector of the embedder's dimension per text.   *)
(* The model is a deterministic stand-in for the sentence model: texts     *)
(* map to distinct points, "c" lies halfway between "a" and "b".           *)
(***************************************************************************)
TextCode(t) == IF t = "a" THEN 0 ELSE IF t = "b" THEN 2 ELSE 1

EmbedOne(t, dim) == [j \in 1..dim |-> TextCode(t) * j]

EmbedText(texts, dim) == [i \in 1..Len(texts) |-> EmbedOne(texts[i], dim)]

(***************************************************************************)
(* faiss.IndexFlatL2(d): the dimension and the stored vectors in insertion *)
(* order. add() refuses a matrix of another width; search() returns the k  *)
(* nearest positions by squared L2 distance, nearest first, equal          *)
(* distances in insertion order, padded with -1 when k > ntotal.           *)
(***************************************************************************)
IndexFlatL2(dim) == [d |-> dim, xb |-> <<>>]

ntotal(index) == Len(index.xb)

RECURSIVE SumSq(_, _, _)
SumSq(x, y, j) == IF j = 0 THEN 0 ELSE (x[j] - y[j]) * (x[j] - y[j]) + SumSq(x, y, j - 1)

L2Sqr(x, y) == SumSq(x, y, Len(x))

IndexAddUnchecked(index, embeddings) == TRUE

IndexAddOk(index, embeddings) == \A i \in 1..Len(embeddings) : Len(embeddings[i]) = index.d

IndexAdd(index, embeddings) == [index EXCEPT !.xb = @ \o embeddings]

RECURSIVE NearestFrom(_, _, _)
NearestFrom(dists, taken, k) ==
    IF k = 0 THEN <<>>
    ELSE LET cand == (1..Len(dists)) \ taken
         IN  IF cand = {}
             THEN <<[dist |-> -1, idx |-> -1]>> \o NearestFrom(dists, taken, k - 1)
             ELSE LET best == CHOOSE i \in cand : \A j \in cand :
                                  dists[i] < dists[j] \/ (dists[i] = dists[j] /\ i <= j)
                  IN  <<[dist |-> dists[best], idx |-> best - 1]>>
                          \o NearestFrom(dists, taken \cup {best}, k - 1)

IndexSearchOk(index, q, k) == Len(q) = index.d /\ k > 0

IndexSearch(index, q, k) ==
    NearestFrom([i \in 1..ntotal(index) |-> L2Sqr(q, index.xb[i])], {}, k)

(***************************************************************************)
(* json.dump / json.load of the metadata object. A JSON value is tagged    *)
(* with its JSON type; objects keep their members in written order.        *)
(***************************************************************************)
NumberKeys == {"chunk_index", "added_at", "updated_at", "embedding_model"}

JsonScalar(k, v) == IF k \in NumberKeys THEN <<"number", v>> ELSE <<"string", v>>

JsonObject(d) == <<"object", [i \in 1..Len(d) |-> <<d[i][1], JsonScalar(d[i][1], d[i][2])>>]>>

PyScalar(j) == j[2]

PyDict(j) == [i \in 1..Len(j[2]) |-> <<j[2][i][1], PyScalar(j[2][i][2])>>]

JsonStringArray(xs) == <<"array", [i \in 1..Len(xs) |-> <<"string", xs[i]>>]>>

JsonObjectArray(ds) == <<"array", [i \in 1..Len(ds) |-> JsonObject(ds[i])]>>

JsonDump(name, model_info, doc_ids, metadata, t) ==
    << <<"name", JsonScalar("name", name)>>,
       <<"embedding_model", JsonScalar("embedding_model", model_info)>>,
       <<"doc_ids", JsonStringArray(doc_ids)>>,
       <<"metadata", JsonObjectArray(metadata)>>,
       <<"updated_at", JsonScalar("updated_at", t)>> >>

JsonLoadDocIds(obj) ==
    LET arr == DictGet(obj, "doc_ids", <<"array", <<>> >>)[2]
    IN  [i \in 1..Len(arr) |-> PyScalar(arr[i])]

JsonLoadMetadata(obj) ==
    LET arr == DictGet(obj, "metadata", <<"array", <<>> >>)[2]
    IN  [i \in 1..Len(arr) |-> PyDict(arr[i])]

(***************************************************************************)
(* The Retriever object and its two files.                                 *)
(***************************************************************************)
IndexName == "default"

NoIndex == [d |-> 0, xb |-> <<>>]           \* self.index = None

NoRetriever ==
    [alive |-> FALSE, index |-> NoIndex, doc_ids |-> <<>>, metadata |-> <<>>,
     embedding_dim |-> 0]

AbsentFile == [state |-> "absent", content |-> <<>>]

PartialFile == [state |-> "partial", content |-> <<>>]  \* opened for writing, not completed

WholeFile(c) == [state |-> "whole", content |-> c]

FileExists(f) == f.state # "absent"

NoFiles == [index_file |-> AbsentFile, metadata_file |-> AbsentFile]

NoRet == [op |-> "none", ok |-> TRUE, n |-> 0, args |-> <<>>]

Returned(op, n) == [NoRet EXCEPT !.op = op, !.n = n]

Raised(op) == [NoRet EXCEPT !.op = op, !.ok = FALSE]

NothingPersisted == [doc_ids |-> <<>>, metadata |-> <<>>, xb |-> <<>>]

InMemory(s) == [doc_ids |-> s.doc_ids, metadata |-> s.metadata, xb |-> s.index.xb]

\* save_index: faiss.write_index, then json.dump of the metadata object
WriteIndexFile(s, dsk) == [dsk EXCEPT !.index_file = WholeFile(s.index)]

WriteMetadataFile(s, dsk, t) ==
    [dsk EXCEPT !.metadata_file =
        WholeFile(JsonDump(IndexName, s.embedding_dim, s.doc_ids, s.metadata, t))]

SaveIndexWithoutVectors(s, dsk, t) == WriteMetadataFile(s, dsk, t)

SaveIndex(s, dsk, t) == WriteMetadataFile(s, WriteIndexFile(s, dsk), t)

\* the files a process leaves when it dies inside save_index, or before it
CrashPoints == {"before_save", "in_write_index", "between_writes", "in_json_dump"}

SaveIndexInterrupted(s, dsk, t, point) ==
    IF point = "before_save" THEN dsk
    ELSE IF point = "in_write_index" THEN [dsk EXCEPT !.index_file = PartialFile]
    ELSE IF point = "between_writes" THEN WriteIndexFile(s, dsk)
    ELSE [WriteIndexFile(s, dsk) EXCEPT !.metadata_file = PartialFile]

\* load_index: the except branch
LoadIndexFailedKeepsIndex(s) == [s EXCEPT !.doc_ids = <<>>, !.metadata = <<>>]

LoadIndexFailed(s) ==
    [s EXCEPT !.index = IndexFlatL2(s.embedding_dim), !.doc_ids = <<>>, !.metadata = <<>>]

\* load_index: [self, ok]
LoadIndex(s, dsk) ==
    IF dsk.index_file.state # "whole"
    THEN [self |-> LoadIndexFailed(s), ok |-> FALSE]
    ELSE LET s1 == [s EXCEPT !.index = dsk.index_file.content]
         IN  IF dsk.metadata_file.state # "whole"
             THEN [self |-> LoadIndexFailed(s1), ok |-> FALSE]
             ELSE [self |-> [s1 EXCEPT
                                !.doc_ids = JsonLoadDocIds(dsk.metadata_file.content),
                                !.metadata = JsonLoadMetadata(dsk.metadata_file.content)],
                   ok |-> TRUE]

\* Retriever.__init__
Construct(dsk, dim) ==
    LET s0 == [alive |-> TRUE, index |-> NoIndex, doc_ids |-> <<>>, metadata |-> <<>>,
               embedding_dim |-> dim]
    IN  IF FileExists(dsk.index_file) /\ FileExists(dsk.metadata_file)
        THEN LoadIndex(s0, dsk)
        ELSE [self |-> [s0 EXCEPT !.index = IndexFlatL2(dim)], ok |-> TRUE]

\* add_documents: the chunk id and the metadata of chunk i (from 0) of a document
DocChunkIdFromOne(doc_id, i) == doc_id \o "_" \o ToString(i + 1)

DocChunkId(doc_id, i) == doc_id \o "_" \o ToString(i)

DocChunkMetadata(doc, i, t) ==
    DictSet(DictSet(DictSet(DictSet(doc.metadata, "doc_id", doc.id),
                            "chunk_index", i),
                    "chunk_text", doc.chunks[i + 1]),
            "added_at", t)

AppendDocChunks(s, doc, t) ==
    [s EXCEPT
        !.doc_ids = @ \o [i \in 1..Len(doc.chunks) |-> DocChunkId(doc.id, i - 1)],
        !.metadata = @ \o [i \in 1..Len(doc.chunks) |-> DocChunkMetadata(doc, i - 1, t)]]

\* add_documents: the loop from document k on; fail_at is the document whose
\* embed_text call raises (0: none)
RECURSIVE AddDocumentsLoop(_, _, _, _, _, _)
AddDocumentsLoop(s, documents, k, t, fail_at, total) ==
    IF k > Len(documents) THEN [self |-> s, ok |-> TRUE, n |-> total]
    ELSE LET doc == documents[k]
         IN  IF doc.chunks = <<>>
             THEN AddDocumentsLoop(s, documents, k + 1, t, fail_at, total)
             ELSE IF fail_at = k \/ ~IndexAddOk(s.index, EmbedText(doc.chunks, s.embedding_dim))
             THEN [self |-> s, ok |-> FALSE, n |-> total]
             ELSE AddDocumentsLoop(
                      AppendDocChunks(
                          [s EXCEPT !.index =
                              IndexAdd(@, EmbedText(doc.chunks, s.embedding_dim))],
                          doc, t),
                      documents, k + 1, t, fail_at, total + Len(doc.chunks))

\* add_texts: the chunk id of text i (from 0), and the zip loop
TextChunkId(t, i) == "text_" \o ToString(t) \o "_" \o ToString(i)

TextChunkMetadata(text, metadata, t) ==
    DictSet(DictSet(metadata, "chunk_text", text), "added_at", t)

NoMetadatas == [given |-> FALSE, list |-> <<>>]           \* metadatas=None

DefaultMetadatas(texts, metadatas) ==
    IF metadatas.given THEN metadatas.list ELSE [i \in 1..Len(texts) |-> <<>>]

ZipLen(texts, metadatas) == Min(Len(texts), Len(metadatas))

AppendTexts(s, texts, metadatas, t) ==
    LET n == ZipLen(texts, metadatas)
    IN  [s EXCEPT
            !.doc_ids = @ \o [i \in 1..n |-> TextChunkId(t, i - 1)],
            !.metadata = @ \o [i \in 1..n |-> TextChunkMetadata(texts[i], metadatas[i], t)]]

\* search: [ok, results]
Score(dist) == [num |-> 1, den |-> 1 + dist]

SearchResult(s, hit) ==
    LET chunk_metadata == s.metadata[hit.idx + 1]
    IN  [chunk_id |-> s.doc_ids[hit.idx + 1],
         text |-> DictGet(chunk_metadata, "chunk_text", ""),
         metadata |-> DictPop(chunk_metadata, "chunk_text"),
         score |-> Score(hit.dist)]

Search(s, query, top_k) ==
    IF s.doc_ids = <<>> THEN [ok |-> TRUE, results |-> <<>>]
    ELSE LET q == EmbedText(<<query>>, s.embedding_dim)[1]
             k == Min(top_k, Len(s.doc_ids))
         IN  IF ~IndexSearchOk(s.index, q, k) THEN [ok |-> FALSE, results |-> <<>>]
             ELSE LET hits == SelectSeq(IndexSearch(s.index, q, k), LAMBDA h : h.idx # -1)
                  IN  IF \E i \in 1..Len(hits) :
                            hits[i].idx >= Len(s.metadata) \/ hits[i].idx >= Len(s.doc_ids)
                      THEN [ok |-> FALSE, results |-> <<>>]
                      ELSE [ok |-> TRUE,
                            results |-> [i \in 1..Len(hits) |-> SearchResult(s, hits[i])]]

\* a pop that acts on the stored dict itself
StoredAfterPopInPlace(stored, key) == DictPop(stored, key)

\* chunk_metadata = self.metadata[idx].copy(); chunk_metadata.pop(key, ''):
\* the stored dict after the pop on its copy
StoredAfterPop(stored, key) == stored

\* the Retriever after search(query, top_k) has built its results
AfterSearch(s, query, top_k) ==
    LET q == EmbedText(<<query>>, s.embedding_dim)[1]
        k == Min(top_k, Len(s.doc_ids))
        hits == SelectSeq(IndexSearch(s.index, q, k), LAMBDA h : h.idx # -1)
    IN  IF s.doc_ids = <<>> \/ ~Search(s, query, top_k).ok THEN s
        ELSE [s EXCEPT !.metadata =
                 [i \in 1..Len(s.metadata) |->
                     IF \E j \in 1..Len(hits) : hits[j].idx = i - 1
                     THEN StoredAfterPop(s.metadata[i], "chunk_text")
                     ELSE s.metadata[i]]]

(***************************************************************************)
(* The public methods as whole calls: [self, disk, saved, ok, n].          *)
(***************************************************************************)
\* add_documents(documents)
AddDocuments(s, dsk, documents, t, fail_at) ==
    IF documents = <<>>
    THEN [self |-> s, disk |-> dsk, saved |-> FALSE, ok |-> TRUE, n |-> 0]
    ELSE LET r == AddDocumentsLoop(s, documents, 1, t, fail_at, 0)
         IN  IF r.ok
             THEN [self |-> r.self, disk |-> SaveIndex(r.self, dsk, t), saved |-> TRUE,
                   ok |-> TRUE, n |-> r.n]
             ELSE [self |-> r.self, disk |-> dsk, saved |-> FALSE, ok |-> FALSE,
                   n |-> 0]

\* add_texts(texts, metadatas); fail: the embed_text call raises
AddTextsWithoutSave(s, dsk, texts, metadatas, t, fail) ==
    IF texts = <<>> \/ fail
    THEN [self |-> s, disk |-> dsk, saved |-> FALSE, ok |-> ~fail, n |-> 0]
    ELSE LET ms == DefaultMetadatas(texts, metadatas)
         IN  [self |-> AppendTexts([s EXCEPT !.index =
                                       IndexAdd(@, EmbedText(texts, s.embedding_dim))],
                                   texts, ms, t),
              disk |-> dsk, saved |-> FALSE, ok |-> TRUE, n |-> ZipLen(texts, ms)]

AddTexts(s, dsk, texts, metadatas, t, fail) ==
    IF texts = <<>>
    THEN [self |-> s, disk |-> dsk, saved |-> FALSE, ok |-> TRUE, n |-> 0]
    ELSE LET ms == DefaultMetadatas(texts, metadatas)
             embeddings == EmbedText(texts, s.embedding_dim)
         IN  IF fail \/ ~IndexAddOk(s.index, embeddings)
             THEN [self |-> s, disk |-> dsk, saved |-> FALSE, ok |-> FALSE,
                   n |-> 0]
             ELSE LET s1 == AppendTexts([s EXCEPT !.index = IndexAdd(@, embeddings)],
                                        texts, ms, t)
                  IN  [self |-> s1, disk |-> SaveIndex(s1, dsk, t), saved |-> TRUE,
                       ok |-> TRUE, n |-> ZipLen(texts, ms)]

\* clear_index()
ClearIndex(s, dsk, t) ==
    LET s1 == [s EXCEPT !.index = IndexFlatL2(s.embedding_dim),
                        !.doc_ids = <<>>, !.metadata = <<>>]
    IN  [self |-> s1, disk |-> SaveIndex(s1, dsk, t), saved |-> TRUE, ok |-> TRUE,
         n |-> 0]

(***************************************************************************)
(* Arguments the callers pass.                                             *)
(***************************************************************************)
RECURSIVE SumChunks(_, _)
SumChunks(documents, k) ==
    IF k = 0 THEN 0 ELSE Len(documents[k].chunks) + SumChunks(documents, k - 1)

Room(s) == MaxChunks - Max(ntotal(s.index), Max(Len(s.doc_ids), Len(s.metadata)))

Documents(ids, texts, room) ==
    [id : ids, chunks : SeqsUpTo(texts, room), metadata : DocMetadatas]

DocumentLists(ids, texts, room) ==
    {ds \in SeqsUpTo(Documents(ids, texts, room), MaxDocs) : SumChunks(ds, Len(ds)) <= room}

TextLists(texts, room) == SeqsUpTo(texts, room)

MetadataLists(texts) ==
    {NoMetadatas} \cup {[given |-> TRUE, list |-> l] : l \in SeqsUpTo(TextMetadatas, Len(texts))}

(***************************************************************************)
(* The calls as actions.                                                   *)
(***************************************************************************)
IdleThread ==
    [pc |-> "idle", op |-> "none", calls |-> 0, documents |-> <<>>, k |-> 0,
     texts |-> <<>>, metadatas |-> <<>>, embeddings |-> <<>>, i |-> 0,
     query |-> "", top_k |-> 0, hits |-> <<>>, raised |-> FALSE]

NoChunking ==
    [impl |-> "none", text |-> <<>>, chunk_size |-> 0, overlap |-> 0, pc |-> "idle",
     start |-> 0, windows |-> <<>>, chunks |-> <<>>, iterations |-> 0]

NoProcessed == [files |-> <<>>, written |-> <<>>]

NoEmbedder == [pc |-> "none"]

NoApp == [pc |-> "none"]

Init ==
    /\ \E dim \in Dims : self = Construct(NoFiles, dim).self
    /\ processed = NoProcessed
    /\ emb = NoEmbedder
    /\ app = NoApp
    /\ disk = NoFiles
    /\ now = 0
    /\ ret = NoRet
    /\ persisted = NothingPersisted
    /\ crashed = FALSE
    /\ threads = [t \in Threads |-> IdleThread]
    /\ ck = NoChunking

Apply(op, r, args) ==
    /\ self' = r.self
    /\ disk' = r.disk
    /\ persisted' = IF r.saved THEN InMemory(r.self) ELSE persisted
    /\ ret' = [(IF r.ok THEN Returned(op, r.n) ELSE Raised(op)) EXCEPT !.args = args]
    /\ UNCHANGED <<now, crashed, threads, ck, processed, emb, app>>

AddDocumentsOf(ids, texts) ==
    /\ self.alive
    /\ \E documents \in DocumentLists(ids, texts, Room(self)), fail_at \in 0..MaxDocs :
          /\ fail_at <= Len(documents)
          /\ Apply("add_documents", AddDocuments(self, disk, documents, now, fail_at),
                   documents)

AddTextsOf(texts_from) ==
    /\ self.alive
    /\ \E texts \in TextLists(texts_from, Room(self)), fail \in BOOLEAN :
          \E metadatas \in MetadataLists(texts) :
              Apply("add_texts", AddTexts(self, disk, texts, metadatas, now, fail), <<>>)

CallAddDocuments == AddDocumentsOf(DocIds, Texts)

CallAddTexts == AddTextsOf(Texts)

CallSearch ==
    /\ self.alive
    /\ \E query \in Queries, top_k \in 1..MaxTopK :
          /\ self' = AfterSearch(self, query, top_k)
          /\ ret' = [NoRet EXCEPT !.op = "search", !.ok = Search(self, query, top_k).ok,
                                  !.n = Len(Search(self, query, top_k).results),
                                  !.args = [query |-> query, top_k |-> top_k,
                                            results |-> Search(self, query, top_k).results]]
          /\ UNCHANGED <<disk, now, persisted, crashed, threads, ck, processed, emb, app>>

CallSaveIndex ==
    /\ self.alive
    /\ Apply("save_index", [self |-> self, disk |-> SaveIndex(self, disk, now),
                            saved |-> TRUE, ok |-> TRUE, n |-> 0], <<>>)

CallLoadIndex ==
    /\ self.alive
    /\ LET r == LoadIndex(self, disk)
       IN  /\ self' = r.self
           /\ ret' = [NoRet EXCEPT !.op = "load_index", !.ok = r.ok]
           /\ UNCHANGED <<disk, now, persisted, crashed, threads, ck, processed, emb, app>>

CallClearIndex ==
    /\ self.alive
    /\ Apply("clear_index", ClearIndex(self, disk, now), <<>>)

\* a Retriever is constructed on the index name with embedder dimension dim
NewRetriever(dim) ==
    LET r == Construct(disk, dim)
    IN  /\ self' = r.self
        /\ ret' = [NoRet EXCEPT !.op = "construct", !.ok = r.ok]
        /\ UNCHANGED <<disk, now, persisted, crashed, threads, ck, processed, emb, app>>

\* the service is restarted with the configuration it had
Restart ==
    /\ self.alive
    /\ NewRetriever(self.embedding_dim)

\* the adds of a process that dies
CrashTexts == {"a"}

CrashDocIds == {"d1"}

AddDocumentsBeforeCrash == AddDocumentsOf(CrashDocIds, CrashTexts)

AddTextsBeforeCrash == AddTextsOf(CrashTexts)

\* the process dies inside add_texts / add_documents
Die(dsk) ==
    /\ ~crashed
    /\ crashed' = TRUE
    /\ disk' = dsk
    /\ self' = NoRetriever
    /\ ret' = Raised("crash")
    /\ UNCHANGED <<now, persisted, threads, ck, processed, emb, app>>

CrashInAddTexts ==
    /\ self.alive
    /\ \E texts \in TextLists(CrashTexts, Room(self)) \ {<<>>}, point \in CrashPoints :
          \E metadatas \in MetadataLists(texts) :
              LET r == AddTexts(self, disk, texts, metadatas, now, FALSE)
              IN  r.ok /\ Die(SaveIndexInterrupted(r.self, disk, now, point))

CrashInAddDocuments ==
    /\ self.alive
    /\ \E documents \in DocumentLists(CrashDocIds, CrashTexts, Room(self)) \ {<<>>},
          point \in CrashPoints :
          LET r == AddDocuments(self, disk, documents, now, 0)
          IN  r.ok /\ Die(SaveIndexInterrupted(r.self, disk, now, point))

\* the service is started again, with any of the embedding models configured
StartAgain ==
    /\ ~self.alive
    /\ \E dim \in Dims : NewRetriever(dim)

(***************************************************************************)
(* Spec: one process, one Retriever, calls one after another.              *)
(***************************************************************************)
Next ==
    \/ CallAddDocuments
    \/ CallAddTexts
    \/ CallSearch
    \/ CallSaveIndex
    \/ CallLoadIndex
    \/ CallClearIndex
    \/ Restart

Spec == Init /\ [][Next]_vars

(***************************************************************************)
(* SpecCrash: the process may die inside an add call; a Retriever is then  *)
(* constructed on the same index name.                                     *)
(***************************************************************************)
NextCrash ==
    \/ AddDocumentsBeforeCrash
    \/ AddTextsBeforeCrash
    \/ CallLoadIndex
    \/ CrashInAddTexts
    \/ CrashInAddDocuments
    \/ StartAgain

SpecCrash == Init /\ [][NextCrash]_vars

(***************************************************************************)
(* SpecReconfig: calls with well-formed arguments; the service may be      *)
(* started again with another embedding model configured (EMBEDDING_MODEL  *)
(* is read from the environment at each start).                            *)
(***************************************************************************)
AddTextsDefaultMetadatas ==
    /\ self.alive
    /\ \E texts \in TextLists(Texts, Room(self)), fail \in BOOLEAN :
          Apply("add_texts", AddTexts(self, disk, texts, NoMetadatas, now, fail), <<>>)

Reconfigure ==
    /\ self.alive
    /\ \E dim \in Dims : NewRetriever(dim)

NextReconfig ==
    \/ CallAddDocuments
    \/ AddTextsDefaultMetadatas
    \/ CallLoadIndex
    \/ Reconfigure

SpecReconfig == Init /\ [][NextReconfig]_vars

(***************************************************************************)
(* SpecConc: two threads call one Retriever. A thread runs a call a        *)
(* statement at a time: index.add, each list append, each file write and   *)
(* each read of the index or of the lists is one step, and the steps of    *)
(* the threads interleave freely (the Retriever holds no lock).            *)
(***************************************************************************)
Returning(th) ==
    [th EXCEPT !.pc = "idle", !.op = "none", !.calls = @ + 1, !.documents = <<>>,
               !.k = 0, !.texts = <<>>, !.metadatas = <<>>, !.embeddings = <<>>,
               !.i = 0, !.query = "", !.top_k = 0, !.hits = <<>>]

RECURSIVE ChunksFrom(_, _)
ChunksFrom(documents, k) ==
    IF k > Len(documents) THEN 0 ELSE Len(documents[k].chunks) + ChunksFrom(documents, k + 1)

\* vectors a thread in an add call has yet to put into the index
PendingVectors(th) ==
    IF th.pc = "t_add" THEN Len(th.embeddings)
    ELSE IF th.pc \in {"d_next", "d_add"} THEN ChunksFrom(th.documents, th.k)
    ELSE IF th.pc \in {"d_id", "d_meta"} THEN ChunksFrom(th.documents, th.k + 1)
    ELSE 0

RECURSIVE SumPending(_)
SumPending(T) ==
    IF T = {} THEN 0
    ELSE LET t == CHOOSE x \in T : TRUE IN PendingVectors(threads[t]) + SumPending(T \ {t})

ConcRoom == MaxChunks - ntotal(self.index) - SumPending(Threads)

Step(t, th) ==
    /\ threads' = [threads EXCEPT ![t] = th]
    /\ UNCHANGED <<now, ret, persisted, crashed, ck, processed, emb, app>>

ConcDocIds == {"d1"}
ConcQueries == {"a", "b"}

CanCall(t) == threads[t].pc = "idle" /\ threads[t].calls < MaxCalls

\* add_texts, lines 120-126: the empty check, the default metadatas, embed_text
BeginAddTexts(t) ==
    /\ CanCall(t)
    /\ \E texts \in TextLists(Texts, ConcRoom) \ {<<>>} :
          Step(t, [threads[t] EXCEPT
                      !.op = "add_texts", !.pc = "t_add", !.texts = texts,
                      !.metadatas = DefaultMetadatas(texts, NoMetadatas),
                      !.embeddings = EmbedText(texts, self.embedding_dim)])
    /\ UNCHANGED <<self, disk>>

\* add_documents, lines 72-75
BeginAddDocuments(t) ==
    /\ CanCall(t)
    /\ \E documents \in DocumentLists(ConcDocIds, Texts, ConcRoom) \ {<<>>} :
          Step(t, [threads[t] EXCEPT
                      !.op = "add_documents", !.pc = "d_next", !.documents = documents,
                      !.k = 1])
    /\ UNCHANGED <<self, disk>>

\* add_documents, lines 77-86: the loop head, the skip of a document without chunks
NextDocument(t) ==
    LET th == threads[t]
    IN  /\ th.pc = "d_next"
        /\ IF th.k > Len(th.documents)
           THEN Step(t, [th EXCEPT !.pc = "w_index"])
           ELSE IF th.documents[th.k].chunks = <<>>
           THEN Step(t, [th EXCEPT !.k = @ + 1])
           ELSE Step(t, [th EXCEPT
                            !.pc = "d_add",
                            !.embeddings = EmbedText(th.documents[th.k].chunks,
                                                     self.embedding_dim)])
        /\ UNCHANGED <<self, disk>>

\* self.index.add(embeddings), lines 88 and 128
IndexAddStep(t) ==
    LET th == threads[t]
    IN  /\ th.pc \in {"t_add", "d_add"}
        /\ self' = [self EXCEPT !.index = IndexAdd(@, th.embeddings)]
        /\ Step(t, [th EXCEPT !.pc = IF th.pc = "t_add" THEN "t_id" ELSE "d_id", !.i = 1])
        /\ UNCHANGED disk

\* self.doc_ids.append(chunk_id), lines 92 and 139
AppendDocIdStep(t) ==
    LET th == threads[t]
    IN  /\ th.pc \in {"t_id", "d_id"}
        /\ self' = [self EXCEPT !.doc_ids = Append(@,
                        IF th.pc = "t_id" THEN TextChunkId(now, th.i - 1)
                        ELSE DocChunkId(th.documents[th.k].id, th.i - 1))]
        /\ Step(t, [th EXCEPT !.pc = IF th.pc = "t_id" THEN "t_meta" ELSE "d_meta"])
        /\ UNCHANGED disk

\* self.metadata.append(chunk_metadata), lines 100 and 140, and the loop's end
AppendMetadataStep(t) ==
    LET th == threads[t]
    IN  /\ th.pc \in {"t_meta", "d_meta"}
        /\ self' = [self EXCEPT !.metadata = Append(@,
                        IF th.pc = "t_meta"
                        THEN TextChunkMetadata(th.texts[th.i], th.metadatas[th.i], now)
                        ELSE DocChunkMetadata(th.documents[th.k], th.i - 1, now))]
        /\ IF th.pc = "t_meta"
           THEN Step(t, IF th.i < ZipLen(th.texts, th.metadatas)
                        THEN [th EXCEPT !.pc = "t_id", !.i = @ + 1]
                        ELSE [th EXCEPT !.pc = "w_index"])
           ELSE Step(t, IF th.i < Len(th.documents[th.k].chunks)
                        THEN [th EXCEPT !.pc = "d_id", !.i = @ + 1]
                        ELSE [th EXCEPT !.pc = "d_next", !.k = @ + 1])
        /\ UNCHANGED disk

\* save_index, line 192: faiss.write_index
WriteIndexStep(t) ==
    LET th == threads[t]
    IN  /\ th.pc = "w_index"
        /\ disk' = WriteIndexFile(self, disk)
        /\ Step(t, [th EXCEPT !.pc = "w_json"])
        /\ UNCHANGED self

\* save_index, lines 194-206: json.dump; the add call returns
WriteMetadataStep(t) ==
    LET th == threads[t]
    IN  /\ th.pc = "w_json"
        /\ disk' = WriteMetadataFile(self, disk, now)
        /\ Step(t, Returning(th))
        /\ UNCHANGED self

\* search, lines 158-164: the empty check, embed_text, the clamp of top_k
BeginSearch(t) ==
    /\ CanCall(t)
    /\ \E query \in ConcQueries, top_k \in 1..MaxTopK :
          IF self.doc_ids = <<>>
          THEN Step(t, Returning(threads[t]))
          ELSE Step(t, [threads[t] EXCEPT
                           !.op = "search", !.pc = "s_search", !.query = query,
                           !.top_k = Min(top_k, Len(self.doc_ids))])
    /\ UNCHANGED <<self, disk>>

\* search, line 165: self.index.search
IndexSearchStep(t) ==
    LET th == threads[t]
        q == EmbedText(<<th.query>>, self.embedding_dim)[1]
    IN  /\ th.pc = "s_search"
        /\ Step(t, [th EXCEPT
                       !.pc = "s_collect", !.i = 1,
                       !.hits = SelectSeq(IndexSearch(self.index, q, th.top_k),
                                          LAMBDA h : h.idx # -1)])
        /\ UNCHANGED <<self, disk>>

\* search, lines 168-183: one result is read from metadata and doc_ids
\* (IndexError past the end of either list), or the results are returned
CollectStep(t) ==
    LET th == threads[t]
    IN  /\ th.pc = "s_collect"
        /\ IF th.i > Len(th.hits)
           THEN Step(t, Returning(th))
           ELSE IF th.hits[th.i].idx >= Len(self.metadata)
                   \/ th.hits[th.i].idx >= Len(self.doc_ids)
           THEN Step(t, [Returning(th) EXCEPT !.raised = TRUE])
           ELSE Step(t, [th EXCEPT !.i = @ + 1])
        /\ UNCHANGED <<self, disk>>

NextConc ==
    \E t \in Threads :
        \/ BeginAddTexts(t)
        \/ BeginAddDocuments(t)
        \/ NextDocument(t)
        \/ IndexAddStep(t)
        \/ AppendDocIdStep(t)
        \/ AppendMetadataStep(t)
        \/ WriteIndexStep(t)
        \/ WriteMetadataStep(t)
        \/ BeginSearch(t)
        \/ IndexSearchStep(t)
        \/ CollectStep(t)

SpecConc == Init /\ [][NextConc]_vars

(***************************************************************************)
(* SpecChunk: chunk_text of ingest.py and of app/api.py. A text is a       *)
(* sequence of characters; a window is the slice text[start:end] the loop  *)
(* cuts in one iteration.                                                  *)
(***************************************************************************)
Chars == {"a", " ", "."}
Whitespace == {" "}
CHUNK_SIZE == 1000
CHUNK_OVERLAP == 200

\* text[a:b] for 0 <= a, b
Slice(text, a, b) == SubSeq(text, a + 1, Min(b, Len(text)))

\* str.rfind(sub, start, end)
RFind(text, sub, start, end) ==
    LET at == {p \in start..(Min(end, Len(text)) - Len(sub)) :
                  Slice(text, p, p + Len(sub)) = sub}
    IN  IF at = {} THEN -1 ELSE CHOOSE p \in at : \A q \in at : q <= p

\* str.strip()
RECURSIVE LStrip(_)
LStrip(text) ==
    IF text # <<>> /\ Head(text) \in Whitespace THEN LStrip(Tail(text)) ELSE text

RECURSIVE RStrip(_)
RStrip(text) ==
    IF text # <<>> /\ text[Len(text)] \in Whitespace
    THEN RStrip(SubSeq(text, 1, Len(text) - 1)) ELSE text

StripAlsoPeriods(text) ==
    IF text # <<>> /\ Head(text) = "." THEN Tail(text) ELSE RStrip(LStrip(text))

Strip(text) == RStrip(LStrip(text))

\* ingest.py: the right edge of the window that starts at start
IngestWindowEnd(text, start, chunk_size) ==
    LET end == Min(start + chunk_size, Len(text))
        last_sentence_end == Max(RFind(text, <<".", " ">>, start, end),
                                 Max(RFind(text, <<"?", " ">>, start, end),
                                     RFind(text, <<"!", " ">>, start, end)))
        last_space == RFind(text, <<" ">>, start, end)
    IN  IF end < Len(text)
        THEN IF last_sentence_end > start THEN last_sentence_end + 1
             ELSE IF last_space > start THEN last_space ELSE end
        ELSE end

\* app/api.py: the right edge of the window that starts at start
ApiWindowEnd(text, start, chunk_size) ==
    LET end == Min(start + chunk_size, Len(text))
        last_space == RFind(text, <<" ">>, start, end)
    IN  IF end < Len(text) /\ text[end + 1] # " " /\ last_space > start
        THEN last_space ELSE end

\* start = end - overlap if end - overlap > start else end
NextStartWithoutGuard(start, end, overlap) == end - overlap

\* a loop that always goes on from the edge, without overlap
NextStartAtEdge(start, end, overlap) == end

NextStart(start, end, overlap) ==
    IF end - overlap > start THEN end - overlap ELSE end

\* app/api.py: chunk_size or default, overlap or default
OrDefault(value, default) == IF value = 0 THEN default ELSE value

ChunkCalls ==
    {[impl |-> impl, text |-> text, chunk_size |-> chunk_size, overlap |-> overlap,
      pc |-> "call", start |-> 0, windows |-> <<>>, chunks |-> <<>>, iterations |-> 0] :
        impl \in {"ingest", "api"}, text \in SeqsUpTo(Chars, MaxTextLen),
        chunk_size \in 1..MaxChunkSize, overlap \in 0..MaxOverlap}

InitChunk ==
    /\ self = NoRetriever
    /\ processed = NoProcessed
    /\ emb = NoEmbedder
    /\ app = NoApp
    /\ disk = NoFiles
    /\ now = 0
    /\ ret = NoRet
    /\ persisted = NothingPersisted
    /\ crashed = FALSE
    /\ threads = [t \in Threads |-> IdleThread]
    /\ ck \in ChunkCalls

\* the defaults of app/api.py, then: if len(text) <= chunk_size: return [text]
ChunkText ==
    /\ ck.pc = "call"
    /\ LET chunk_size == IF ck.impl = "api" THEN OrDefault(ck.chunk_size, CHUNK_SIZE)
                         ELSE ck.chunk_size
           overlap == IF ck.impl = "api" THEN OrDefault(ck.overlap, CHUNK_OVERLAP)
                      ELSE ck.overlap
       IN  ck' = IF Len(ck.text) <= chunk_size
                 THEN [ck EXCEPT !.pc = "returned", !.chunk_size = chunk_size,
                                 !.overlap = overlap, !.chunks = <<ck.text>>,
                                 !.windows = <<[start |-> 0, end |-> Len(ck.text)]>>]
                 ELSE [ck EXCEPT !.pc = "loop", !.chunk_size = chunk_size,
                                 !.overlap = overlap, !.start = 0]
    /\ UNCHANGED <<self, disk, now, ret, persisted, crashed, threads, processed, emb, app>>

\* one iteration of: while start < len(text)
ChunkIteration ==
    /\ ck.pc = "loop"
    /\ ck.start < Len(ck.text)
    /\ ck.iterations <= MaxTextLen
    /\ LET end == IF ck.impl = "ingest"
                  THEN IngestWindowEnd(ck.text, ck.start, ck.chunk_size)
                  ELSE ApiWindowEnd(ck.text, ck.start, ck.chunk_size)
           window == Slice(ck.text, ck.start, end)
       IN  ck' = [ck EXCEPT
                     !.chunks = Append(@, IF ck.impl = "ingest" THEN Strip(window)
                                          ELSE window),
                     !.windows = Append(@, [start |-> ck.start, end |-> end]),
                     !.start = NextStart(ck.start, end, ck.overlap),
                     !.iterations = @ + 1]
    /\ UNCHANGED <<self, disk, now, ret, persisted, crashed, threads, processed, emb, app>>

\* the loop ends: return chunks
ChunkReturn ==
    /\ ck.pc = "loop"
    /\ ck.start >= Len(ck.text)
    /\ ck' = [ck EXCEPT !.pc = "returned"]
    /\ UNCHANGED <<self, disk, now, ret, persisted, crashed, threads, processed, emb, app>>

NextChunk == ChunkText \/ ChunkIteration \/ ChunkReturn

SpecChunk == InitChunk /\ [][NextChunk]_vars

(***************************************************************************)
(* SpecIngest: ingest_from_text and ingest_from_url of ingest.py write     *)
(* document records into the processed-documents directory while the       *)
(* clock advances. A text is a sequence of characters.                     *)
(***************************************************************************)
PREFIX_LEN == 100

\* re.sub(r'\n+', '\n', text)
RECURSIVE CollapseNewlines(_)
CollapseNewlines(text) ==
    IF Len(text) < 2 THEN text
    ELSE IF text[1] = "\n" /\ text[2] = "\n" THEN CollapseNewlines(Tail(text))
    ELSE <<Head(text)>> \o CollapseNewlines(Tail(text))

\* re.sub(r'\s+', ' ', text)
RECURSIVE CollapseWhitespace(_)
CollapseWhitespace(text) ==
    IF text = <<>> THEN <<>>
    ELSE IF Head(text) \in {" ", "\n"}
    THEN IF Len(text) >= 2 /\ text[2] \in {" ", "\n"}
         THEN CollapseWhitespace(Tail(text))
         ELSE <<" ">> \o CollapseWhitespace(Tail(text))
    ELSE <<Head(text)>> \o CollapseWhitespace(Tail(text))

\* re.sub(r'<[^>]+>', '', text)
RECURSIVE StripTags(_)
StripTags(text) ==
    LET closing == {j \in 2..Len(text) : text[j] = ">"}
        first == CHOOSE j \in closing : \A q \in closing : j <= q
    IN  IF text = <<>> THEN <<>>
        ELSE IF Head(text) = "<" /\ closing # {} /\ first >= 3
        THEN StripTags(SubSeq(text, first + 1, Len(text)))
        ELSE <<Head(text)>> \o StripTags(Tail(text))

clean_text(text) == Strip(StripTags(CollapseWhitespace(CollapseNewlines(text))))

\* chunk_text of ingest.py, the loop from start on
RECURSIVE IngestChunkLoop(_, _, _, _)
IngestChunkLoop(text, start, chunk_size, overlap) ==
    IF start >= Len(text) THEN <<>>
    ELSE LET end == IngestWindowEnd(text, start, chunk_size)
         IN  <<Strip(Slice(text, start, end))>>
             \o IngestChunkLoop(text, NextStart(start, end, overlap), chunk_size, overlap)

chunk_text(text, chunk_size, chunk_overlap) ==
    IF Len(text) <= chunk_size THEN <<text>>
    ELSE IngestChunkLoop(text, 0, chunk_size, chunk_overlap)

\* hash() of a str: equal strings have equal hashes; distinct strings are
\* given distinct hashes here
Hash(str) == <<"hash", str>>

\* f"text_{hash(text[:100])}_{int(time.time())}", f"url_{hash(url)}_{int(time.time())}"
TextDocId(text, t) == <<"text", Hash(Slice(text, 0, PREFIX_LEN)), t>>

UrlDocId(url, t) == <<"url", Hash(url), t>>

\* save_processed_document: open(file_path, 'w') creates the file or replaces it
save_processed_document(files, doc_id, chunks, metadata, t) ==
    DictSet(files, doc_id,
            [id |-> doc_id, chunks |-> chunks, metadata |-> metadata, processed_at |-> t])

process_document(files, text, doc_id, metadata, t) ==
    save_processed_document(files, doc_id,
                            chunk_text(clean_text(text), CHUNK_SIZE, CHUNK_OVERLAP),
                            metadata, t)

IngestTexts ==
    {<<"a">>, <<"a", " ", " ", "b">>, <<"<", "b", ">", "a", "\n", "\n">>}

IngestMetadatas == {<<>>, << <<"source", "s">> >>}

Urls == {"u1"}

Titles == {"Untitled", "t"}

DefaultTextMetadata == << <<"source", "direct_input">>, <<"type", "text">> >>

InitIngest ==
    /\ self = NoRetriever
    /\ disk = NoFiles
    /\ now = 0
    /\ ret = NoRet
    /\ persisted = NothingPersisted
    /\ crashed = FALSE
    /\ threads = [t \in Threads |-> IdleThread]
    /\ ck = NoChunking
    /\ processed = NoProcessed
    /\ emb = NoEmbedder
    /\ app = NoApp

\* the document a call wrote is read back from its path
Ingested(op, files, doc_id) ==
    /\ processed' = [files |-> files,
                     written |-> Append(processed.written, DictGet(files, doc_id, <<>>))]
    /\ ret' = [Returned(op, 1) EXCEPT !.args = doc_id]
    /\ UNCHANGED <<self, disk, now, persisted, crashed, threads, ck, emb, app>>

\* ingest_from_text(text, metadata); given: metadata is not None
IngestFromText ==
    /\ Len(processed.written) < MaxIngests
    /\ \E text \in IngestTexts, metadata \in IngestMetadatas, given \in BOOLEAN :
          LET doc_id == TextDocId(text, now)
          IN  Ingested("ingest_from_text",
                       process_document(processed.files, text, doc_id,
                                        IF given THEN metadata ELSE DefaultTextMetadata,
                                        now),
                       doc_id)

\* ingest_from_url(url): the page is fetched (title, text) or the fetch fails
IngestFromUrl ==
    /\ Len(processed.written) < MaxIngests
    /\ \E url \in Urls, title \in Titles, text \in IngestTexts :
          LET doc_id == UrlDocId(url, now)
              metadata == << <<"source", url>>, <<"title", title>>, <<"type", "web">> >>
          IN  Ingested("ingest_from_url",
                       process_document(processed.files, clean_text(text), doc_id,
                                        metadata, now),
                       doc_id)

IngestFromUrlFails ==
    /\ Len(processed.written) < MaxIngests
    /\ ret' = Raised("ingest_from_url")
    /\ UNCHANGED <<self, disk, now, persisted, crashed, threads, ck, processed, emb, app>>

\* a second passes
Tick ==
    /\ now < MaxTime
    /\ now' = now + 1
    /\ UNCHANGED <<self, disk, ret, persisted, crashed, threads, ck, processed, emb, app>>

NextIngest == IngestFromText \/ IngestFromUrl \/ IngestFromUrlFails \/ Tick

SpecIngest == InitIngest /\ [][NextIngest]_vars

(***************************************************************************)
(* SpecEmbed: an Embedder is constructed in an environment (installed      *)
(* packages, environment variables) and embed_text is called on it. The    *)
(* remote strategy runs a batch at a time. A text is its position in the   *)
(* input; the embedding a model returns for it is RemoteEmbedding or       *)
(* LocalEmbedding of it.                                                   *)
(***************************************************************************)
BATCH_SIZE == 1000
ADA_DIMENSION == 1536
LOCAL_DIMENSION == 384
OTHER_DIMENSION == 2

\* the dimension of the vectors the remote model returns
RemoteDimension(OPENAI_MODEL) ==
    IF OPENAI_MODEL = "text-embedding-ada-002" THEN ADA_DIMENSION ELSE OTHER_DIMENSION

ModelTypes == {"None", "openai", "sentence-transformer", "bert"}

RemoteEmbedding(text) == <<"remote", text>>

LocalEmbedding(text) == <<"local", text>>

\* the numbers of texts given to embed_text
TextCounts == {0, 1, BATCH_SIZE, BATCH_SIZE + 1, 2 * BATCH_SIZE + 1}

NoCall == [texts |-> <<>>, i |-> 0, all_embeddings |-> <<>>, sent |-> <<>>,
           failed |-> FALSE, status |-> "none", value |-> <<>>]

Environments ==
    [pc : {"new"}, requested : ModelTypes,
     openai_installed : BOOLEAN, OPENAI_API_KEY : BOOLEAN,
     DEFAULT_EMBEDDING_MODEL : {"sentence-transformer", "openai"},
     OPENAI_MODEL : {"text-embedding-ada-002", "other"},
     EMBEDDING_DIMENSION : {0, 3},
     model_type : {"unset"}, model : {FALSE}, dimension : {0}, calls : {0},
     call : {NoCall}]

InitEmbed ==
    /\ self = NoRetriever
    /\ disk = NoFiles
    /\ now = 0
    /\ ret = NoRet
    /\ persisted = NothingPersisted
    /\ crashed = FALSE
    /\ threads = [t \in Threads |-> IdleThread]
    /\ ck = NoChunking
    /\ processed = NoProcessed
    /\ app = NoApp
    /\ emb \in Environments

\* Embedder.__init__, the 'openai' branch: [raised, model_type, dimension]
OpenAIBranch(e, dimension) ==
    IF ~e.openai_installed
    THEN [raised |-> FALSE, model_type |-> "sentence-transformer", dimension |-> dimension]
    ELSE IF ~e.OPENAI_API_KEY
    THEN [raised |-> TRUE, model_type |-> "openai", dimension |-> dimension]
    ELSE [raised |-> FALSE, model_type |-> "openai",
          dimension |-> IF dimension = 0 /\ e.OPENAI_MODEL = "text-embedding-ada-002"
                        THEN ADA_DIMENSION ELSE dimension]

\* Embedder.__init__(model_type)
EmbedderInit(e) ==
    LET model_type == IF e.requested = "None" THEN e.DEFAULT_EMBEDDING_MODEL
                      ELSE e.requested
        dimension == e.EMBEDDING_DIMENSION
        o == IF model_type = "openai" THEN OpenAIBranch(e, dimension)
             ELSE [raised |-> FALSE, model_type |-> model_type, dimension |-> dimension]
    IN  IF o.raised
        THEN [e EXCEPT !.pc = "raised", !.model_type = o.model_type,
                       !.dimension = o.dimension]
        ELSE IF o.model_type = "sentence-transformer"
        THEN [e EXCEPT !.pc = "ready", !.model_type = o.model_type, !.model = TRUE,
                       !.dimension = IF o.dimension = 0 THEN LOCAL_DIMENSION
                                     ELSE o.dimension]
        ELSE [e EXCEPT !.pc = "ready", !.model_type = o.model_type,
                       !.dimension = o.dimension]

EmbStep(e) ==
    /\ emb' = e
    /\ UNCHANGED <<self, disk, now, ret, persisted, crashed, threads, ck, processed, app>>

NewEmbedder ==
    /\ emb.pc = "new"
    /\ EmbStep(EmbedderInit(emb))

\* embed_text(texts): the remote strategy starts its loop; the local
\* strategy encodes with self.model (AttributeError when it is None)
CallEmbedText ==
    /\ emb.pc = "ready"
    /\ emb.calls < MaxEmbedCalls
    /\ \E n \in TextCounts :
          LET texts == [p \in 1..n |-> p]
              call == [NoCall EXCEPT !.texts = texts]
          IN  EmbStep(
                  IF emb.model_type = "openai"
                  THEN [emb EXCEPT !.pc = "batching", !.calls = @ + 1, !.call = call]
                  ELSE IF ~emb.model
                  THEN [emb EXCEPT !.calls = @ + 1,
                                   !.call = [call EXCEPT !.status = "raised"]]
                  ELSE [emb EXCEPT !.calls = @ + 1,
                                   !.call = [call EXCEPT
                                       !.status = "returned",
                                       !.value = [p \in 1..n |-> LocalEmbedding(texts[p])]]])

\* _embed_with_openai: one iteration of the loop, the request of a batch
SendBatch ==
    /\ emb.pc = "batching"
    /\ emb.call.i < Len(emb.call.texts)
    /\ LET batch == Slice(emb.call.texts, emb.call.i, emb.call.i + BATCH_SIZE)
       IN  EmbStep([emb EXCEPT
                       !.call.sent = Append(@, batch),
                       !.call.all_embeddings =
                           @ \o [p \in 1..Len(batch) |-> RemoteEmbedding(batch[p])],
                       !.call.i = @ + BATCH_SIZE])

\* the request of a batch raises: the call logs and re-raises
SendBatchFails ==
    /\ emb.pc = "batching"
    /\ emb.call.i < Len(emb.call.texts)
    /\ EmbStep([emb EXCEPT
                   !.pc = "ready",
                   !.call.sent = Append(@, Slice(emb.call.texts, emb.call.i,
                                               emb.call.i + BATCH_SIZE)),
                   !.call.failed = TRUE,
                   !.call.status = "raised"])

\* after the loop: np.array(all_embeddings); embeddings.shape[1] when the
\* dimension is not yet known (IndexError for an array without rows)
ReturnEmbeddings ==
    /\ emb.pc = "batching"
    /\ emb.call.i >= Len(emb.call.texts)
    /\ EmbStep(IF emb.dimension = 0
               THEN IF emb.call.all_embeddings = <<>>
                    THEN [emb EXCEPT !.pc = "ready", !.call.status = "raised"]
                    ELSE [emb EXCEPT !.pc = "ready",
                                     !.dimension = RemoteDimension(emb.OPENAI_MODEL),
                                     !.call.status = "returned",
                                     !.call.value = emb.call.all_embeddings]
               ELSE [emb EXCEPT !.pc = "ready", !.call.status = "returned",
                                !.call.value = emb.call.all_embeddings])

NextEmbed ==
    NewEmbedder \/ CallEmbedText \/ SendBatch \/ SendBatchFails \/ ReturnEmbeddings

SpecEmbed == InitEmbed /\ [][NextEmbed]_vars

(***************************************************************************)
(* SpecApi: the HTTP service of app/api.py. The store is the module-level  *)
(* index, chunks, metadata and last_ingest_time; a request is handled as   *)
(* one step and leaves its response in app.response. A text is a sequence  *)
(* of characters; last_ingest_time is <<>> for None, else <<time>>.        *)
(***************************************************************************)
DEFAULT_TOP_K == 5
EMBEDDING_SIZE == 2

\* model.encode([text])[0]: a deterministic stand-in for the sentence model,
\* a point of the embedding space for each text
ApiEncode(text) ==
    <<Len(text), Cardinality({i \in 1..Len(text) : text[i] = "a"})>>

\* chunk_text of app/api.py, the loop from start on
RECURSIVE ApiChunkLoop(_, _, _, _)
ApiChunkLoop(text, start, chunk_size, overlap) ==
    IF start >= Len(text) THEN <<>>
    ELSE LET end == ApiWindowEnd(text, start, chunk_size)
         IN  <<Slice(text, start, end)>>
             \o ApiChunkLoop(text, NextStart(start, end, overlap), chunk_size, overlap)

\* chunk_text(text) as the ingest handler calls it: both sizes from the
\* environment
ApiChunkText(text, env) ==
    LET chunk_size == OrDefault(0, env.CHUNK_SIZE)
        overlap == OrDefault(0, env.CHUNK_OVERLAP)
    IN  IF Len(text) <= chunk_size THEN <<text>>
        ELSE ApiChunkLoop(text, 0, chunk_size, overlap)

\* CHUNK_SIZE and CHUNK_OVERLAP of the environment: the defaults, or a
\* deployment with small chunks
ApiEnvironments ==
    {[CHUNK_SIZE |-> CHUNK_SIZE, CHUNK_OVERLAP |-> CHUNK_OVERLAP],
     [CHUNK_SIZE |-> 2, CHUNK_OVERLAP |-> 1]}

ApiTexts == {<<"a">>, <<"a", " ", "a", "a">>}

\* url values of a body: one that HttpUrl accepts, one that it refuses
ApiUrls == {"http://u", "u"}

IsHttpUrl(url) == url = "http://u"

\* the text extract_text_from_url gets from the page
PageText(url) == <<"a", "a", "a">>

SourceFields == {"text", "url"}

\* a JSON body: the source fields it carries and their values
IngestBodies ==
    {b \in [fields : SUBSET SourceFields, text : ApiTexts \cup {<<>>},
            url : ApiUrls \cup {""}] :
        /\ "text" \in b.fields <=> b.text # <<>>
        /\ "url" \in b.fields <=> b.url # ""}

\* the members of Union[IngestTextRequest, IngestUrlRequest] a body
\* validates as; fields a member does not declare are ignored
ValidatesAs(body) ==
    {m \in {"IngestTextRequest"} : "text" \in body.fields}
        \cup {m \in {"IngestUrlRequest"} : "url" \in body.fields /\ IsHttpUrl(body.url)}

ApiQueries == {<<>>, <<"a">>, <<"a", "a">>}

\* top_k of a query; 0 also stands for an absent parameter (top_k or default)
ApiTopKs == {0, 1, MaxTopK}

NoResponse ==
    [endpoint |-> "none", status |-> 0, request |-> <<>>, detail |-> "",
     added |-> 0, searched |-> FALSE, results |-> <<>>]

\* the module after import: an empty index of the model's dimension
ApiStarted ==
    {[pc |-> "serving", env |-> env, index |-> IndexFlatL2(EMBEDDING_SIZE),
      chunks |-> <<>>, metadata |-> <<>>, last_ingest_time |-> <<>>,
      requests |-> 0, response |-> NoResponse] : env \in ApiEnvironments}

InitApi ==
    /\ self = NoRetriever
    /\ disk = NoFiles
    /\ now = 0
    /\ ret = NoRet
    /\ persisted = NothingPersisted
    /\ crashed = FALSE
    /\ threads = [t \in Threads |-> IdleThread]
    /\ ck = NoChunking
    /\ processed = NoProcessed
    /\ emb = NoEmbedder
    /\ app \in ApiStarted

\* a loop that appends the chunks without their vectors and metadata
IngestChunksAlone(a, text_chunks, request_metadata, n) ==
    [a EXCEPT !.chunks = @ \o SubSeq(text_chunks, 1, n)]

\* the for loop of ingest over the first n chunks
RECURSIVE IngestChunks(_, _, _, _)
IngestChunks(a, text_chunks, request_metadata, n) ==
    IF n = 0 THEN a
    ELSE LET b == IngestChunks(a, text_chunks, request_metadata, n - 1)
         IN  [b EXCEPT !.index = IndexAdd(@, <<ApiEncode(text_chunks[n])>>),
                       !.chunks = Append(@, text_chunks[n]),
                       !.metadata = Append(@, request_metadata)]

\* POST /ingest with a body no member of the Union accepts: the request
\* validation answers before the handler runs
PostIngestUnprocessable ==
    /\ app.pc = "serving"
    /\ app.requests < MaxRequests
    /\ \E body \in IngestBodies :
         /\ ValidatesAs(body) = {}
         /\ app' = [app EXCEPT !.requests = @ + 1,
                               !.response = [NoResponse EXCEPT
                                   !.endpoint = "ingest", !.status = 422,
                                   !.request = body,
                                   !.detail = "validation error"]]
    /\ UNCHANGED <<self, disk, now, ret, persisted, crashed, threads, ck,
                   processed, emb>>

\* POST /ingest, the handler. request is the member the body was validated
\* as; fetched tells whether requests.get succeeded; fail = k > 0 makes
\* model.encode raise on the k-th chunk
PostIngest ==
    /\ app.pc = "serving"
    /\ app.requests < MaxRequests
    /\ \E body \in IngestBodies, fetched \in BOOLEAN :
         \E request \in ValidatesAs(body) :
           LET is_url == request = "IngestUrlRequest"
               text == IF is_url THEN PageText(body.url) ELSE body.text
               source == IF is_url THEN body.url ELSE "direct_input"
               request_metadata == [source |-> source, ingest_time |-> now]
               text_chunks == ApiChunkText(text, app.env)
               respond(a, status, detail, added) ==
                   [a EXCEPT !.requests = @ + 1,
                             !.response = [NoResponse EXCEPT
                                 !.endpoint = "ingest", !.status = status,
                                 !.request = body, !.detail = detail,
                                 !.added = added]]
           IN  IF is_url /\ ~fetched
               THEN app' = respond(app, 400, "Failed to extract text from URL", 0)
               ELSE /\ is_url \/ fetched
                    /\ Len(app.chunks) + Len(text_chunks) <= MaxStored
                    /\ \E fail \in 0..Len(text_chunks) :
                         IF fail > 0
                         THEN app' = respond(
                                  IngestChunks(app, text_chunks, request_metadata, fail - 1),
                                  500, "Ingest operation failed", fail - 1)
                         ELSE app' = respond(
                                  [IngestChunks(app, text_chunks, request_metadata,
                                                Len(text_chunks))
                                      EXCEPT !.last_ingest_time = <<now>>],
                                  200, "success", Len(text_chunks))
    /\ UNCHANGED <<self, disk, now, ret, persisted, crashed, threads, ck,
                   processed, emb>>

\* GET /query?q=...&top_k=...
GetQuery ==
    /\ app.pc = "serving"
    /\ app.requests < MaxRequests
    /\ \E q \in ApiQueries, top_k_param \in ApiTopKs :
         LET top_k == OrDefault(top_k_param, DEFAULT_TOP_K)
             k == Min(top_k, Len(app.chunks))
             hits == IndexSearch(app.index, ApiEncode(q), k)
             found == SelectSeq(hits, LAMBDA h : h.idx # -1)
             results == [i \in 1..Len(found) |->
                            [chunk |-> app.chunks[found[i].idx + 1],
                             metadata |-> app.metadata[found[i].idx + 1],
                             dist |-> found[i].dist]]
             request == [q |-> q, top_k |-> top_k_param]
         IN  app' = [app EXCEPT
                 !.requests = @ + 1,
                 !.response =
                     IF app.chunks = <<>>
                     THEN [NoResponse EXCEPT
                              !.endpoint = "query", !.status = 400,
                              !.request = request,
                              !.detail = "Vector store is empty"]
                     ELSE [NoResponse EXCEPT
                              !.endpoint = "query", !.status = 200,
                              !.request = request, !.detail = "success",
                              !.searched = TRUE, !.results = results]]
    /\ UNCHANGED <<self, disk, now, ret, persisted, crashed, threads, ck,
                   processed, emb>>

\* GET /status
GetStatus ==
    /\ app.pc = "serving"
    /\ app.requests < MaxRequests
    /\ app' = [app EXCEPT
           !.requests = @ + 1,
           !.response = [NoResponse EXCEPT
               !.endpoint = "status", !.status = 200, !.detail = "healthy",
               !.results = <<Len(app.chunks), app.last_ingest_time>>]]
    /\ UNCHANGED <<self, disk, now, ret, persisted, crashed, threads, ck,
                   processed, emb>>

NextApi == PostIngest \/ PostIngestUnprocessable \/ GetQuery \/ GetStatus \/ Tick

SpecApi == InitApi /\ [][NextApi]_vars

(***************************************************************************)
(* SpecSources: one call of ingest_from_wikipedia, ingest_news_topic,      *)
(* ingest_from_news_api or ingest_financial_data of ingest.py on an empty  *)
(* processed-documents directory. What the outside world answers (pages,   *)
(* feeds, bundles, whether a write succeeds) is the input of the call; the *)
(* call leaves its result and the lookups it made in ret.args.             *)
(***************************************************************************)
NoPath == <<>>

\* the exceptions of the wikipedia package; all derive from Exception
WikipediaExceptions == {"DisambiguationError", "PageError"}

WikiTitles == {"w1", "w2"}

AltTitle == "alt"

\* wikipedia.page(title) of every title, and e.options of an ambiguous one
WikiWorlds ==
    [page : [WikiTitles \cup {AltTitle} -> {"page"} \cup WikipediaExceptions],
     options : {<<>>, <<AltTitle>>}]

\* wikipedia.search(topic, results=max_articles)
SearchResults == {<<>>, <<"w1">>, <<"w2">>, <<"w1", "w2">>, <<"w2", "w1">>}

PageContent(title) == <<"a">>

WikiDocId(title, t) == <<"wiki", Hash(title), t>>

WikiMetadata(title, original_query) ==
    LET metadata == << <<"source", "wikipedia">>, <<"title", title>>,
                       <<"url", "url:" \o title>>, <<"type", "wikipedia">>,
                       <<"language", "en">> >>
    IN  IF original_query # "" THEN DictSet(metadata, "original_query", original_query)
        ELSE metadata

\* process_wikipedia_article(title, original_query): wikipedia.page raises
\* inside the try, and `except Exception` returns None for whatever it raised
process_wikipedia_article(files, world, title, original_query, t) ==
    LET outcome == world.page[title]
    IN  IF outcome = "page"
        THEN [file_path |-> WikiDocId(title, t), raised |-> "none",
              files |-> process_document(files, PageContent(title), WikiDocId(title, t),
                                         WikiMetadata(title, original_query), t)]
        ELSE IF outcome \in WikipediaExceptions
        THEN [file_path |-> NoPath, raised |-> "none", files |-> files]
        ELSE [file_path |-> NoPath, raised |-> outcome, files |-> files]

\* the for loop of ingest_from_wikipedia from the i-th search result on;
\* s holds the files, processed_docs and the process_wikipedia_article calls
RECURSIVE WikiLoop(_, _, _, _, _)
WikiLoop(s, world, search_results, i, t) ==
    IF i > Len(search_results) THEN s
    ELSE LET title == search_results[i]
             first == process_wikipedia_article(s.files, world, title, "", t)
             s1 == [files |-> first.files,
                    processed_docs |-> IF first.file_path # NoPath
                                       THEN Append(s.processed_docs, first.file_path)
                                       ELSE s.processed_docs,
                    lookups |-> Append(s.lookups, [title |-> title, original_query |-> ""])]
             retry == process_wikipedia_article(s1.files, world, world.options[1], title, t)
             s2 == [files |-> retry.files,
                    processed_docs |-> IF retry.file_path # NoPath
                                       THEN Append(s1.processed_docs, retry.file_path)
                                       ELSE s1.processed_docs,
                    lookups |-> Append(s1.lookups, [title |-> world.options[1],
                                                    original_query |-> title])]
         IN  IF first.raised = "DisambiguationError" /\ world.options # <<>>
             THEN WikiLoop(s2, world, search_results, i + 1, t)
             ELSE WikiLoop(s1, world, search_results, i + 1, t)

InitSources ==
    /\ self = NoRetriever
    /\ disk = NoFiles
    /\ now = 0
    /\ ret = NoRet
    /\ persisted = NothingPersisted
    /\ crashed = FALSE
    /\ threads = [t \in Threads |-> IdleThread]
    /\ ck = NoChunking
    /\ processed = NoProcessed
    /\ emb = NoEmbedder
    /\ app = NoApp

\* the call returns: its result, what it was given and the time of the call
\* are kept in ret.args
SourceReturned(op, files, input, result, lookups) ==
    /\ processed' = [files |-> files,
                     written |-> [i \in 1..Len(files) |-> files[i][2]]]
    /\ ret' = [Returned(op, Len(result)) EXCEPT
                  !.args = [input |-> input, result |-> result, lookups |-> lookups,
                            at |-> now]]
    /\ UNCHANGED <<self, disk, now, persisted, crashed, threads, ck, emb, app>>

\* ingest_from_wikipedia(topic): the search returns and every result is
\* processed
IngestFromWikipedia ==
    /\ ret = NoRet
    /\ \E world \in WikiWorlds, search_results \in SearchResults :
         LET s == WikiLoop([files |-> processed.files, processed_docs |-> <<>>,
                            lookups |-> <<>>], world, search_results, 1, now)
         IN  SourceReturned("ingest_from_wikipedia", s.files,
                            [world |-> world, search_results |-> search_results],
                            s.processed_docs, s.lookups)

\* ingest_from_wikipedia(topic): wikipedia.search raises, the call re-raises
IngestFromWikipediaSearchFails ==
    /\ ret = NoRet
    /\ ret' = Raised("ingest_from_wikipedia")
    /\ UNCHANGED <<self, disk, now, persisted, crashed, threads, ck, processed, emb, app>>

\* sub in text
Contains(text, sub) ==
    \E p \in 0..(Len(text) - Len(sub)) : Slice(text, p, p + Len(sub)) = sub

NewsTitles == {"", "n1", "n2"}

\* content of an upstream article: complete, cut with "...", cut with
\* "[+", blank
NewsContents == {<<"a">>, <<"a", ".", ".", ".">>, <<"a", "[", "+">>, <<>>}

Description == <<"d">>

FetchedText == <<"f">>

\* an article of the upstream feed, with what the world answers for it:
\* fetched, whether extract_text_from_url of its url succeeds; saved, whether
\* the write of its document succeeds
NewsArticles ==
    [title : NewsTitles, content : NewsContents, fetched : BOOLEAN, saved : BOOLEAN]

NewsFeeds ==
    {<<>>} \cup {<<a>> : a \in NewsArticles}
           \cup {<<a, b>> : a \in NewsArticles, b \in NewsArticles}

\* fetch_news of external/news_api.py: articles without a title are dropped
fetch_news(feed) == SelectSeq(feed, LAMBDA article : article.title # "")

NewsDocId(title, t) == <<"news", Hash(title), t>>

NewsFullText(title, content) ==
    <<"Title: ", title, "\n", "\n", "Source: ", "s", "\n", "Author: ", "a", "\n",
      "Published: ", "p", "\n", "\n", "Description: ">> \o Description
        \o <<"\n", "\n", "Content:", "\n">> \o content

NewsMetadata(title, topic, source_name) ==
    << <<"source", source_name>>, <<"title", title>>, <<"url", "url:" \o title>>,
       <<"author", "a">>, <<"published_at", "p">>, <<"source_name", "s">>,
       <<"type", "news">>, <<"topic", topic>> >>

\* a process_news_article that hands back a path although the write failed
process_news_articleKeepsPath(files, article, content, topic, source_name, t) ==
    [file_path |-> NewsDocId(article.title, t),
     files |-> IF article.saved
               THEN process_document(files, NewsFullText(article.title, content),
                                     NewsDocId(article.title, t),
                                     NewsMetadata(article.title, topic, source_name), t)
               ELSE files]

\* process_news_article(article, topic, source_name): any exception of the
\* body, here a failed write, returns None
process_news_article(files, article, content, topic, source_name, t) ==
    IF article.saved
    THEN [file_path |-> NewsDocId(article.title, t),
          files |-> process_document(files, NewsFullText(article.title, content),
                                     NewsDocId(article.title, t),
                                     NewsMetadata(article.title, topic, source_name), t)]
    ELSE [file_path |-> NoPath, files |-> files]

\* if not content or "..." in content or "[+" in content
NeedsRefetch(content) ==
    content = <<>> \/ Contains(content, <<".", ".", ".">>) \/ Contains(content, <<"[", "+">>)

\* the for loop over the articles from the i-th on; refetch tells whether
\* the loop is the one of ingest_from_news_api, which re-fetches, or the one
\* of ingest_news_topic, which does not; s holds the files, processed_docs,
\* the positions of the re-fetched articles and the content used for each
RECURSIVE NewsLoop(_, _, _, _, _, _, _)
NewsLoop(s, articles, i, topic, source_name, refetch, t) ==
    IF i > Len(articles) THEN s
    ELSE LET article == articles[i]
             again == refetch /\ NeedsRefetch(article.content)
             content == IF again
                        THEN IF article.fetched THEN FetchedText ELSE Description
                        ELSE article.content
             r == process_news_article(s.files, article, content, topic, source_name, t)
         IN  NewsLoop([files |-> r.files,
                       processed_docs |-> IF r.file_path # NoPath
                                          THEN Append(s.processed_docs, r.file_path)
                                          ELSE s.processed_docs,
                       refetched |-> IF again THEN Append(s.refetched, i) ELSE s.refetched,
                       contents |-> Append(s.contents, content)],
                      articles, i + 1, topic, source_name, refetch, t)

NoNews == [files |-> processed.files, processed_docs |-> <<>>, refetched |-> <<>>,
           contents |-> <<>>]

\* ingest_news_topic(topic)
IngestNewsTopic ==
    /\ ret = NoRet
    /\ \E feed \in NewsFeeds :
         LET articles == fetch_news(feed)
             s == NewsLoop(NoNews, articles, 1, "topic", "newsapi_external", FALSE, now)
         IN  SourceReturned("ingest_news_topic", s.files,
                            [feed |-> feed, articles |-> articles],
                            s.processed_docs,
                            [refetched |-> s.refetched, contents |-> s.contents])

\* ingest_from_news_api(topic): the request is answered with the feed
IngestFromNewsApi ==
    /\ ret = NoRet
    /\ \E feed \in NewsFeeds :
         LET s == NewsLoop(NoNews, feed, 1, "topic", "newsapi", TRUE, now)
         IN  SourceReturned("ingest_from_news_api", s.files,
                            [feed |-> feed, articles |-> feed],
                            s.processed_docs,
                            [refetched |-> s.refetched, contents |-> s.contents])

\* ingest_from_news_api(topic): no NEWS_API_KEY, or the request fails
IngestFromNewsApiFails ==
    /\ ret = NoRet
    /\ ret' = Raised("ingest_from_news_api")
    /\ UNCHANGED <<self, disk, now, persisted, crashed, threads, ck, processed, emb, app>>

\* what the endpoints of the financial API answer for a ticker: a list per
\* endpoint, empty when the API knows nothing; numbers are written as
\* strings, "None" is a null
FmpProfiles == {<<>>, << << <<"companyName", "c">>, <<"sector", "s">> >> >>}

FmpQuotes == {<<>>, << << <<"price", "1">> >> >>}

FmpStatements == {<<>>, << << <<"revenue", "1">> >> >>, << << <<"revenue", "None">> >> >>}

FmpWorlds ==
    [FMP_API_KEY : BOOLEAN, profile : FmpProfiles, quote : FmpQuotes,
     income_statement : FmpStatements, saved : BOOLEAN]

\* _fetch_company_profile, _fetch_stock_price: data[0], or {} for no data
FirstOrEmpty(data) == IF data = <<>> THEN <<>> ELSE data[1]

\* fetch_financials of external/fmp_api.py: {} without a key, and {} when
\* neither a profile nor a quote was found
fetch_financials(world, ticker) ==
    LET financial_data ==
            << <<"ticker", ticker>>,
               <<"company_profile", FirstOrEmpty(world.profile)>>,
               <<"income_statement", world.income_statement>>,
               <<"stock_price", FirstOrEmpty(world.quote)>> >>
    IN  IF ~world.FMP_API_KEY THEN <<>>
        ELSE IF FirstOrEmpty(world.profile) = <<>> /\ FirstOrEmpty(world.quote) = <<>>
        THEN <<>>
        ELSE financial_data

FinancialDocId(ticker, t) == <<"financial", ticker, t>>

\* the text process_financial_data renders: the header, the price block if
\* there is a quote, the first income statement if there is one
FinancialText(data, ticker) ==
    LET company_profile == DictGet(data, "company_profile", <<>>)
        stock_price == DictGet(data, "stock_price", <<>>)
        income_statements == DictGet(data, "income_statement", <<>>)
    IN  <<"Company: ", DictGet(company_profile, "companyName", ticker), "\n",
          "Symbol: ", ticker, "\n",
          "Sector: ", DictGet(company_profile, "sector", ""), "\n", "\n">>
        \o (IF stock_price # <<>>
            THEN <<"Price: $", DictGet(stock_price, "price", "N/A"), "\n", "\n">>
            ELSE <<>>)
        \o (IF income_statements # <<>>
            THEN <<"Revenue: $", DictGet(income_statements[1], "revenue", "0"), "\n">>
            ELSE <<>>)

\* f"{statement.get('revenue', 0):,}" raises TypeError for None
FormatRaises(data) ==
    LET income_statements == DictGet(data, "income_statement", <<>>)
    IN  income_statements # <<>>
            /\ DictGet(income_statements[1], "revenue", "0") = "None"

\* process_financial_data(data, ticker, source_name): the path, or raises
process_financial_data(files, data, ticker, source_name, saved, t) ==
    LET company_profile == DictGet(data, "company_profile", <<>>)
        metadata == << <<"source", source_name>>, <<"ticker", ticker>>,
                       <<"company_name", DictGet(company_profile, "companyName", ticker)>>,
                       <<"sector", DictGet(company_profile, "sector", "")>>,
                       <<"type", "financial">> >>
    IN  IF FormatRaises(data) \/ ~saved
        THEN [file_path |-> NoPath, raised |-> TRUE, files |-> files]
        ELSE [file_path |-> FinancialDocId(ticker, t), raised |-> FALSE,
              files |-> process_document(files, FinancialText(data, ticker),
                                         FinancialDocId(ticker, t), metadata, t)]

\* ingest_financial_data(ticker): "" for no data and for any exception
IngestFinancialData ==
    /\ ret = NoRet
    /\ \E world \in FmpWorlds :
         LET financial_data == fetch_financials(world, "T")
             r == process_financial_data(processed.files, financial_data, "T",
                                         "financial_modeling_prep_external",
                                         world.saved, now)
         IN  IF financial_data = <<>>
             THEN SourceReturned("ingest_financial_data", processed.files,
                                 world, NoPath, <<>>)
             ELSE SourceReturned("ingest_financial_data", r.files, world,
                                 r.file_path, <<>>)

NextSources ==
    \/ IngestFromWikipedia \/ IngestFromWikipediaSearchFails
    \/ IngestNewsTopic \/ IngestFromNewsApi \/ IngestFromNewsApiFails
    \/ IngestFinancialData
    \/ Tick

SpecSources == InitSources /\ [][NextSources]_vars

(***************************************************************************)
(* Two processes, each with the Retriever get_retriever built for it on    *)
(* the one index name: self[t] is the instance of process t, disk the two  *)
(* companion files both instances read and write.                          *)
(***************************************************************************)
MaxSharedCalls == 2     \* calls each process makes on its instance

NobodySaved == [by |-> "none", state |-> NothingPersisted]

\* get_retriever returns a new Retriever on every call
InstancesAfterCached(instances, t, s) == [u \in DOMAIN instances |-> s]

InstancesAfter(instances, t, s) == [instances EXCEPT ![t] = s]

\* both processes run with one configuration: the narrowest embedding model
SharedDim == CHOOSE dim \in Dims : \A other \in Dims : dim <= other

InitShared ==
    /\ self = [t \in Threads |-> Construct(NoFiles, SharedDim).self]
    /\ processed = NoProcessed
    /\ emb = NoEmbedder
    /\ app = NoApp
    /\ disk = NoFiles
    /\ now = 0
    /\ ret = NoRet
    /\ persisted = NobodySaved
    /\ crashed = FALSE
    /\ threads = [t \in Threads |-> IdleThread]
    /\ ck = NoChunking

SharedCanCall(t) == threads[t].calls < MaxSharedCalls

\* each process adds its own text and its own document
SharedTexts(t) == IF t = "t1" THEN {"a"} ELSE {"b"}

SharedDocIds(t) == IF t = "t1" THEN {"d1"} ELSE {"d2"}

SharedApply(t, op, r) ==
    /\ self' = InstancesAfter(self, t, r.self)
    /\ disk' = r.disk
    /\ persisted' = IF r.saved THEN [by |-> t, state |-> InMemory(r.self)] ELSE persisted
    /\ ret' = [(IF r.ok THEN Returned(op, r.n) ELSE Raised(op))
                  EXCEPT !.args = [by |-> t, saved |-> r.saved]]
    /\ threads' = [threads EXCEPT ![t].calls = @ + 1]
    /\ UNCHANGED <<now, crashed, ck, processed, emb, app>>

SharedAddDocuments ==
    \E t \in Threads :
        /\ SharedCanCall(t)
        /\ \E documents \in DocumentLists(SharedDocIds(t), SharedTexts(t), Room(self[t])),
              fail_at \in 0..MaxDocs :
              /\ fail_at <= Len(documents)
              /\ SharedApply(t, "add_documents",
                             AddDocuments(self[t], disk, documents, now, fail_at))

SharedAddTexts ==
    \E t \in Threads :
        /\ SharedCanCall(t)
        /\ \E texts \in TextLists(SharedTexts(t), Room(self[t])), fail \in BOOLEAN :
              SharedApply(t, "add_texts",
                          AddTexts(self[t], disk, texts, NoMetadatas, now, fail))

SharedClearIndex ==
    \E t \in Threads :
        /\ SharedCanCall(t)
        /\ SharedApply(t, "clear_index", ClearIndex(self[t], disk, now))

\* process t builds its instance again: it loads what the files hold
SharedGetRetriever ==
    \E t \in Threads :
        /\ SharedCanCall(t)
        /\ LET r == Construct(disk, self[t].embedding_dim)
           IN  SharedApply(t, "construct", [self |-> r.self, disk |-> disk,
                                            saved |-> FALSE, ok |-> r.ok, n |-> 0])

NextShared ==
    \/ SharedAddDocuments
    \/ SharedAddTexts
    \/ SharedClearIndex
    \/ SharedGetRetriever

SpecShared == InitShared /\ [][NextShared]_vars

(***************************************************************************)
(* agents/base_agent_runner.py and agents/agent_runner_app.py: app holds   *)
(* the module-level agent_runners, one AgentRunner per framework; None is  *)
(* <<>> and a time t is <<t>>.                                             *)
(***************************************************************************)
MaxRuns == 2        \* run_task calls the runner API answers
MaxRunSteps == 1    \* steps a framework records between task_start and final_output

Frameworks == {"crewai", "autogen"}

Topics == {"acme", "initech"}

\* what a framework does between task_start and final_output: the steps it
\* records, each with the tokens it adds after the step
BodySteps == [step_type : {"rag_query"}, tokens : {0, 100}]

Bodies == SeqsUpTo(BodySteps, MaxRunSteps)

\* AgentRunner.__init__
AgentRunnerInit(agent_name) ==
    [agent_name |-> agent_name, start_time |-> <<>>, end_time |-> <<>>, steps |-> <<>>,
     token_usage |-> 0, final_output |-> ""]

_add_step(r, step_type, step_data, t) ==
    [r EXCEPT !.steps = Append(@, [step_id |-> Len(@) + 1, step_type |-> step_type,
                                   timestamp |-> t, data |-> step_data])]

_update_token_usage(r, additional_tokens) ==
    [r EXCEPT !.token_usage = @ + additional_tokens]

_set_final_output(r, output, t) ==
    _add_step([r EXCEPT !.final_output = output], "final_output", output, t)

_complete_task(r, t) == _add_step([r EXCEPT !.end_time = <<t>>], "task_complete", "", t)

\* the abstract run_task every framework calls first
BaseRunTask(r, topic, t) == _add_step([r EXCEPT !.start_time = <<t>>], "task_start", topic, t)

RECURSIVE RunBody(_, _, _, _)
RunBody(r, body, i, t) ==
    IF i > Len(body) THEN r
    ELSE RunBody(_update_token_usage(_add_step(r, body[i].step_type, "", t),
                                     body[i].tokens),
                 body, i + 1, t)

\* format_output: [self, result]
format_output(r, t) ==
    LET r1 == IF r.end_time = <<>> THEN [r EXCEPT !.end_time = <<t>>] ELSE r
    IN  [self |-> r1,
         result |-> [agent_name |-> r1.agent_name, final_output |-> r1.final_output,
                     steps |-> r1.steps, token_usage |-> r1.token_usage,
                     response_time |-> IF r1.start_time # <<>>
                                       THEN <<r1.end_time[1] - r1.start_time[1]>>
                                       ELSE <<>>]]

\* run_task of a framework's runner: [self, result]
run_task(r, topic, body, t) ==
    format_output(_complete_task(_set_final_output(
                      RunBody(BaseRunTask(r, topic, t), body, 1, t), topic, t), t), t)

InitRunners ==
    /\ self = NoRetriever
    /\ processed = NoProcessed
    /\ emb = NoEmbedder
    /\ app = [pc |-> "runners", runs |-> 0,
              agent_runners |-> [agent \in Frameworks |-> AgentRunnerInit(agent)]]
    /\ disk = NoFiles
    /\ now = 0
    /\ ret = NoRet
    /\ persisted = NothingPersisted
    /\ crashed = FALSE
    /\ threads = [t \in Threads |-> IdleThread]
    /\ ck = NoChunking

\* POST /run: the runner of the requested framework runs the task
PostRun ==
    /\ app.pc = "runners"
    /\ app.runs < MaxRuns
    /\ \E agent \in Frameworks, topic \in Topics, body \in Bodies :
          LET r == run_task(app.agent_runners[agent], topic, body, now)
          IN  /\ app' = [app EXCEPT !.runs = @ + 1, !.agent_runners[agent] = r.self]
              /\ ret' = [NoRet EXCEPT !.op = "run_task",
                                      !.args = [agent |-> agent, topic |-> topic,
                                                body |-> body, result |-> r.result,
                                                run |-> app.runs + 1]]
    /\ UNCHANGED <<self, disk, now, persisted, crashed, threads, ck, processed, emb>>

NextRunners == PostRun \/ Tick

SpecRunners == InitRunners /\ [][NextRunners]_vars

(***************************************************************************)
(* Properties of the Retriever.                                            *)
(***************************************************************************)
Lockstep(s) == ntotal(s.index) = Len(s.doc_ids) /\ Len(s.doc_ids) = Len(s.metadata)

AddReturned == self.alive /\ ret.op \in {"add_documents", "add_texts"} /\ ret.ok

\* C1: after any add_documents / add_texts call that returned normally,
\* len(doc_ids) = len(metadata) = the number of vectors in the index.
\* Violated: add_texts zips texts with a shorter metadatas list.
C1_CountInvariant == AddReturned => Lockstep(self)

\* C3: when add_documents / add_texts returns normally after adding at least
\* one chunk, the two files hold exactly the in-memory vectors, doc_ids and
\* metadata, and a Retriever constructed on the index name holds them all.
C3_AcknowledgedIsPersisted ==
    (AddReturned /\ ret.n >= 1) =>
        /\ disk.index_file = WholeFile(self.index)
        /\ disk.metadata_file.state = "whole"
        /\ JsonLoadDocIds(disk.metadata_file.content) = self.doc_ids
        /\ JsonLoadMetadata(disk.metadata_file.content) = self.metadata
        /\ LET r == Construct(disk, self.embedding_dim)
           IN  r.ok /\ InMemory(r.self) = InMemory(self)

C3_Witness ==
    /\ AddReturned
    /\ ret.n >= 1
    /\ Len(self.doc_ids) > ret.n
    /\ disk.metadata_file.state = "whole"

\* C4: a Retriever constructed after the process died inside an add call
\* still holds, in lockstep, every chunk the completed calls had persisted.
\* Violated: save_index rewrites both files in place.
C4_CrashKeepsPersisted ==
    (crashed /\ self.alive /\ ret.op = "construct" /\ Len(persisted.doc_ids) >= 1) =>
        /\ IsPrefix(persisted.doc_ids, self.doc_ids)
        /\ IsPrefix(persisted.metadata, self.metadata)
        /\ IsPrefix(persisted.xb, self.index.xb)
        /\ (Len(persisted.xb) = Len(persisted.doc_ids) => Lockstep(self))

C6_SearchClamped ==
    (self.alive /\ Len(self.doc_ids) >= 1) =>
        \A query \in Queries, top_k \in 1..MaxTopK :
            /\ Search(self, query, top_k).ok
            /\ Len(Search(self, query, top_k).results) = Min(top_k, Len(self.doc_ids))

\* C10: a load_index that fails reading either file returns False and leaves
\* an empty index of the configured dimension and empty doc_ids and metadata.
LoadAttempted ==
    \/ ret.op = "load_index"
    \/ ret.op = "construct" /\ FileExists(disk.index_file) /\ FileExists(disk.metadata_file)

FilesUnreadable == disk.index_file.state # "whole" \/ disk.metadata_file.state # "whole"

C10_LoadFailureResets ==
    (self.alive /\ LoadAttempted) =>
        /\ ret.ok = ~FilesUnreadable
        /\ ~ret.ok => /\ self.index = IndexFlatL2(self.embedding_dim)
                      /\ self.doc_ids = <<>>
                      /\ self.metadata = <<>>

C10_Witness ==
    /\ self.alive
    /\ LoadAttempted
    /\ ~ret.ok
    /\ disk.index_file.state = "whole"
    /\ ntotal(disk.index_file.content) >= 1
    /\ disk.index_file.content.d # self.embedding_dim

(***************************************************************************)
(* Properties of concurrent calls.                                         *)
(***************************************************************************)
AllReturned == \A t \in Threads : threads[t].pc = "idle"

\* the vector at a position is the embedding of the text its metadata holds,
\* and a document chunk's id is the one its metadata names
Aligned(s, p) ==
    /\ s.index.xb[p] = EmbedOne(DictGet(s.metadata[p], "chunk_text", ""), s.embedding_dim)
    /\ DictHas(s.metadata[p], "doc_id") =>
          s.doc_ids[p] = DocChunkId(DictGet(s.metadata[p], "doc_id", ""),
                                    DictGet(s.metadata[p], "chunk_index", 0))

\* C2: concurrent add calls on one Retriever are serialized: once all have
\* returned, the three stores have equal length and at every position the
\* vector, the id and the metadata belong to the same chunk.
\* Violated: the Retriever holds no lock.
C2_AddsSerialized ==
    AllReturned =>
        /\ Lockstep(self)
        /\ \A p \in 1..Len(self.doc_ids) : Aligned(self, p)

\* C7: a search never interleaves with an add in flight: every position the
\* vector lookup returned has a doc_ids and a metadata entry, and no search
\* reads past the end of the lists.
\* Violated: the Retriever holds no lock.
C7_SearchSeesWholeAdds ==
    \A t \in Threads :
        /\ ~threads[t].raised
        /\ threads[t].pc = "s_collect" =>
              \A h \in 1..Len(threads[t].hits) :
                  /\ threads[t].hits[h].idx < Len(self.doc_ids)
                  /\ threads[t].hits[h].idx < Len(self.metadata)

(***************************************************************************)
(* Properties of chunk_text.                                               *)
(***************************************************************************)
\* C8: chunking a text longer than chunk_size, for any chunk_size > 0 and
\* any overlap >= 0 (overlap >= chunk_size too), takes at most len(text)
\* iterations: each window starts strictly after the one before, at
\* end - overlap when that is past the previous start and at end otherwise
\* (overlap is the one in force in the loop).
C8_ChunkingTerminates ==
    LET n == Len(ck.windows)
    IN  ck.pc \in {"loop", "returned"} =>
            /\ ck.iterations <= Len(ck.text)
            /\ \A k \in 1..n :
                  LET w == ck.windows[k]
                      next == IF k < n THEN ck.windows[k + 1].start ELSE ck.start
                  IN  ck.iterations > 0 =>
                          /\ w.end > w.start
                          /\ next > w.start
                          /\ next = IF w.end - ck.overlap > w.start
                                    THEN w.end - ck.overlap ELSE w.end

C8_Witness ==
    /\ ck.pc = "returned"
    /\ ck.iterations = Len(ck.text)
    /\ ck.iterations >= 3
    /\ ck.overlap >= ck.chunk_size

RECURSIVE Concat(_)
Concat(seqs) == IF seqs = <<>> THEN <<>> ELSE Head(seqs) \o Concat(Tail(seqs))

\* the characters of window k the windows before it overlap
Overlapped(k) == IF k = 1 THEN 0 ELSE ck.windows[k - 1].end - ck.windows[k].start

NonOverlapPortion(chunk, k) == SubSeq(chunk, Overlapped(k) + 1, Len(chunk))

\* C9 as stated: the non-overlap portions of the returned chunks,
\* concatenated, are the text.
C9_ChunksReconstructText ==
    ck.pc = "returned" =>
        Concat([k \in 1..Len(ck.chunks) |-> NonOverlapPortion(ck.chunks[k], k)]) = ck.text

TrimmedFrom(chunk, window) ==
    \E a \in 0..Len(window) :
        /\ a + Len(chunk) <= Len(window)
        /\ SubSeq(window, a + 1, a + Len(chunk)) = chunk
        /\ \A p \in (1..a) \cup ((a + Len(chunk) + 1)..Len(window)) :
              window[p] \in Whitespace

\* C9 amended: the non-overlap portions of the windows chunk_text cuts,
\* concatenated, are the text, and each returned chunk is its window less
\* whitespace at the window's two ends: outside the overlap only whitespace
\* at a window's edge is dropped.
C9_WindowsReconstructText ==
    ck.pc = "returned" =>
        /\ Len(ck.chunks) = Len(ck.windows)
        /\ Concat([k \in 1..Len(ck.windows) |->
                      NonOverlapPortion(Slice(ck.text, ck.windows[k].start,
                                              ck.windows[k].end), k)]) = ck.text
        /\ \A k \in 1..Len(ck.chunks) :
              TrimmedFrom(ck.chunks[k],
                          Slice(ck.text, ck.windows[k].start, ck.windows[k].end))

C9_Witness ==
    /\ ck.pc = "returned"
    /\ ck.impl = "ingest"
    /\ Len(ck.chunks) >= 2
    /\ \E k \in 2..Len(ck.chunks) : Overlapped(k) > 0
    /\ \E k \in 1..Len(ck.chunks) :
          ck.chunks[k] # Slice(ck.text, ck.windows[k].start, ck.windows[k].end)

(***************************************************************************)
(* Properties of load_index and of failed adds.                            *)
(***************************************************************************)
LoadReturnedTrue ==
    /\ ret.op \in {"construct", "load_index"}
    /\ ret.ok
    /\ FileExists(disk.index_file) /\ FileExists(disk.metadata_file)

\* C11: after a load_index that returned True the index has the configured
\* embedding dimension and as many vectors as there are doc_ids and
\* metadata entries (files that break either are a load failure).
\* Violated: load_index checks neither.
C11_LoadedIsConsistent ==
    LoadReturnedTrue =>
        /\ self.index.d = self.embedding_dim
        /\ Lockstep(self)

\* the chunk ids '<doc_id>_0', '<doc_id>_1', ... of the documents, in order
RECURSIVE ExpectedIds(_)
ExpectedIds(documents) ==
    IF documents = <<>> THEN <<>>
    ELSE [i \in 1..Len(Head(documents).chunks) |->
              Head(documents).id \o "_" \o ToString(i - 1)]
         \o ExpectedIds(Tail(documents))

RECURSIVE ExpectedTexts(_)
ExpectedTexts(documents) ==
    IF documents = <<>> THEN <<>> ELSE Head(documents).chunks \o ExpectedTexts(Tail(documents))

AddRaised == ret.op \in {"add_documents", "add_texts"} /\ ~ret.ok

\* what a step appended to a list
Appended(old, new) == SubSeq(new, Len(old) + 1, Len(new))

\* C12: an add_documents or add_texts that fails partway (embed_text raises,
\* or the vectors have another dimension than the index) leaves the vectors
\* level with the ids and the metadata: the step appended to the three
\* stores exactly the chunks of the documents before the failing one (none
\* for add_texts), and every stored vector has the dimension of the index.
C12_FailedAddKeepsStoresLevel ==
    [][AddRaised' =>
          /\ IsPrefix(self.index.xb, self'.index.xb)
          /\ IsPrefix(self.doc_ids, self'.doc_ids)
          /\ IsPrefix(self.metadata, self'.metadata)
          /\ \E k \in 0..Len(ret'.args) :
                LET added == SubSeq(ret'.args, 1, k)
                IN  /\ Appended(self.doc_ids, self'.doc_ids) = ExpectedIds(added)
                    /\ Appended(self.index.xb, self'.index.xb) =
                          [i \in 1..Len(ExpectedTexts(added)) |->
                              EmbedOne(ExpectedTexts(added)[i], self.embedding_dim)]
                    /\ [i \in 1..Len(Appended(self.metadata, self'.metadata)) |->
                           DictGet(Appended(self.metadata, self'.metadata)[i],
                                   "chunk_text", "")] = ExpectedTexts(added)
          /\ \A p \in 1..Len(self'.index.xb) : Len(self'.index.xb[p]) = self'.index.d
      ]_vars

\* an add_documents failed after it had added a document
C12_Witness ==
    /\ AddRaised
    /\ ret.op = "add_documents"
    /\ Len(self.doc_ids) > Len(persisted.doc_ids)
    /\ Lockstep(self)

\* C13: after any sequence of add_documents and add_texts calls, at any
\* times and with any document ids, the chunk ids in doc_ids are pairwise
\* distinct.
\* Violated: an id is built from the caller's document id, or from the
\* second of the call, and a position; nothing compares it with stored ids.
C13_ChunkIdsDistinct ==
    \A i, j \in 1..Len(self.doc_ids) : i # j => self.doc_ids[i] # self.doc_ids[j]

\* the document id and the position of each chunk of the documents, in order
RECURSIVE ExpectedPositions(_)
ExpectedPositions(documents) ==
    IF documents = <<>> THEN <<>>
    ELSE [i \in 1..Len(Head(documents).chunks) |->
              [doc_id |-> Head(documents).id, chunk_index |-> i - 1]]
         \o ExpectedPositions(Tail(documents))

\* C15: add_documents skips the documents without chunks and does not fail
\* on them, returns the number of chunks of the other documents, and appends
\* for these, in input order, the ids '<doc_id>_0', '<doc_id>_1', ..., each
\* with metadata whose doc_id and chunk_index are the chunk's document and
\* position.
C15_AddDocumentsContract ==
    [][(ret'.op = "add_documents" /\ ret'.ok) =>
          LET ids == Appended(self.doc_ids, self'.doc_ids)
              mds == Appended(self.metadata, self'.metadata)
          IN  /\ IsPrefix(self.doc_ids, self'.doc_ids)
              /\ IsPrefix(self.metadata, self'.metadata)
              /\ ret'.n = Len(ExpectedTexts(ret'.args))
              /\ ids = ExpectedIds(ret'.args)
              /\ [p \in 1..Len(mds) |->
                     [doc_id |-> DictGet(mds[p], "doc_id", ""),
                      chunk_index |-> DictGet(mds[p], "chunk_index", -1)]]
                 = ExpectedPositions(ret'.args)
      ]_vars

\* an add_documents returned that was given a document without chunks
\* between documents with chunks
C15_Witness ==
    /\ ret.op = "add_documents" /\ ret.ok
    /\ ret.n >= 2
    /\ \E k \in 1..Len(ret.args) : ret.args[k].chunks = <<>>
    /\ SubSeq(self.doc_ids, Len(self.doc_ids) - 1, Len(self.doc_ids)) \in
          {<<"d1_0", "d1_1">>, <<"d2_0", "d2_1">>}

(***************************************************************************)
(* Properties of the ingest functions.                                     *)
(***************************************************************************)
\* C14: ingestion never overwrites a document record: every successful
\* ingest call, at any time and with any content (identical content too),
\* persists its record under an id no earlier record has, and the earlier
\* records stay as they were written.
\* Violated: the id repeats within one second and the file is opened 'w'.
C14_NoSilentOverwrite ==
    /\ \A i, j \in 1..Len(processed.written) :
          i # j => processed.written[i].id # processed.written[j].id
    /\ \A i \in 1..Len(processed.written) :
          /\ DictHas(processed.files, processed.written[i].id)
          /\ DictGet(processed.files, processed.written[i].id, <<>>) = processed.written[i]

(***************************************************************************)
(* Properties of the Embedder.                                             *)
(***************************************************************************)
RemoteRequested ==
    \/ emb.requested = "openai"
    \/ emb.requested = "None" /\ emb.DEFAULT_EMBEDDING_MODEL = "openai"

FellBackToLocal ==
    /\ emb.pc # "raised"
    /\ emb.model_type = "sentence-transformer"
    /\ emb.model
    /\ emb.EMBEDDING_DIMENSION = 0 => emb.dimension = LOCAL_DIMENSION

\* C16: constructing an Embedder with the 'openai' strategy when the openai
\* package cannot be imported, or when the API key is missing, does not
\* fail: the Embedder has model_type 'sentence-transformer', the local
\* model loaded and its dimension.
\* Violated: only ImportError is caught; the missing key raises ValueError.
C16_RemoteUnavailableFallsBack ==
    (emb.pc \notin {"none", "new"} /\ RemoteRequested
        /\ (~emb.openai_installed \/ ~emb.OPENAI_API_KEY))
    => FellBackToLocal

\* C17: constructing an Embedder with a model type other than 'openai' and
\* 'sentence-transformer' falls back to the local strategy: the local model
\* is loaded, get_dimension() is its dimension and embed_text succeeds.
\* Violated: no branch handles such a type; no model is loaded.
C17_UnknownTypeFallsBack ==
    (emb.pc \notin {"none", "new"} /\ emb.requested = "bert")
    => /\ FellBackToLocal
       /\ emb.call.status # "raised"

\* C18: the remote strategy sends the texts in consecutive batches of at
\* most 1000, in input order, and returns one embedding per text in input
\* order; when the request of a batch fails the call raises and returns
\* nothing.
\* Violated for no texts when the dimension is not yet known.
C18_RemoteBatches ==
    (emb.pc \notin {"none", "new"} /\ emb.model_type = "openai") =>
        LET c == emb.call
            sent == Concat(c.sent)
        IN  /\ \A b \in 1..Len(c.sent) : Len(c.sent[b]) \in 1..BATCH_SIZE
            /\ sent = SubSeq(c.texts, 1, Len(sent))
            /\ (emb.pc = "ready" /\ emb.calls > 0) =>
                  IF c.failed
                  THEN c.status = "raised" /\ c.value = <<>>
                  ELSE /\ c.status = "returned"
                       /\ sent = c.texts
                       /\ c.value = [p \in 1..Len(c.texts) |-> RemoteEmbedding(c.texts[p])]

(***************************************************************************)
(* Properties of the HTTP service.                                         *)
(***************************************************************************)
IngestAnswered == app.response.endpoint = "ingest"

QueryAnswered == app.response.endpoint = "query"

\* C19: POST /ingest processes a body only when exactly one source field is
\* populated; a body with no source field, or with both text and url, is
\* answered with status 400 and adds nothing to the store.
\* Violated: the handler has no such test. A body without a source field is
\* refused by the request validation with 422, and a body with both fields
\* validates as one member of the Union and is ingested.
C19_ExactlyOneSource ==
    IngestAnswered /\ Cardinality(app.response.request.fields) # 1
        => app.response.status = 400 /\ app.response.added = 0

\* C20: GET /query with an empty query string is answered with status 400
\* in every state of the store, and no search is performed for it.
\* Violated: the handler only tests whether the store is empty; on a
\* non-empty store the empty string is encoded and searched.
C20_EmptyQueryRejected ==
    QueryAnswered /\ app.response.request.q = <<>>
        => app.response.status = 400 /\ ~app.response.searched

(***************************************************************************)
(* Properties of the ingestion sources.                                    *)
(***************************************************************************)
WikipediaReturned == ret.op = "ingest_from_wikipedia" /\ ret.ok

RetriesOf(title) ==
    {k \in 1..Len(ret.args.lookups) :
        ret.args.lookups[k] = [title |-> ret.args.input.world.options[1],
                               original_query |-> title]}

\* C21: in ingest_from_wikipedia, a search result whose page lookup hits the
\* ambiguous-title condition (with at least one suggested alternative) is
\* retried exactly once against the first alternative, and the document that
\* retry produces carries original_query = the original title.
\* Violated: process_wikipedia_article catches the DisambiguationError itself
\* and returns None, so the handler of ingest_from_wikipedia never runs.
C21_AmbiguousTitleRetried ==
    WikipediaReturned =>
        \A i \in 1..Len(ret.args.input.search_results) :
            LET world == ret.args.input.world
                title == ret.args.input.search_results[i]
            IN  world.page[title] = "DisambiguationError" /\ world.options # <<>>
                    => /\ Cardinality(RetriesOf(title)) = 1
                       /\ world.page[world.options[1]] = "page"
                            => \E j \in 1..Len(processed.written) :
                                  DictGet(processed.written[j].metadata,
                                          "original_query", "") = title

NewsTopicReturned == ret.op = "ingest_news_topic"

\* the paths of the articles of a sequence that meet a condition, in order
PathsOf(articles, Succeeded(_), Path(_)) ==
    LET succeeded == SelectSeq(articles, Succeeded)
    IN  [i \in 1..Len(succeeded) |-> Path(succeeded[i])]

\* C22: in ingest_from_wikipedia (once the search has returned) and in
\* ingest_news_topic, a failure while processing one article does not abort
\* the batch: every article is processed, the call returns normally, and its
\* result is the paths of exactly the articles that succeeded, in input
\* order (the empty list if none did).
C22_BatchSurvivesFailures ==
    /\ WikipediaReturned =>
          LET world == ret.args.input.world
              search_results == ret.args.input.search_results
          IN  /\ ret.args.lookups = [i \in 1..Len(search_results) |->
                                       [title |-> search_results[i], original_query |-> ""]]
              /\ ret.args.result =
                     PathsOf(search_results, LAMBDA title : world.page[title] = "page",
                             LAMBDA title : WikiDocId(title, ret.args.at))
    /\ NewsTopicReturned =>
          LET articles == ret.args.input.articles
          IN  /\ ret.ok
              /\ Len(ret.args.lookups.contents) = Len(articles)
              /\ ret.args.result =
                     PathsOf(articles, LAMBDA article : article.saved,
                             LAMBDA article : NewsDocId(article.title, ret.args.at))
              /\ \A i \in 1..Len(ret.args.result) :
                     DictHas(processed.files, ret.args.result[i])

\* C22 witness: ingest_news_topic was given two articles, the write of the
\* first failed, and the call returned the path of the second alone.
C22_Witness ==
    /\ NewsTopicReturned
    /\ Len(ret.args.input.articles) = 2
    /\ ~ret.args.input.articles[1].saved
    /\ ret.args.input.articles[2].saved
    /\ ret.args.result = <<NewsDocId(ret.args.input.articles[2].title, ret.args.at)>>
    /\ Len(processed.files) = 1

NewsReturned == ret.op \in {"ingest_news_topic", "ingest_from_news_api"} /\ ret.ok

Refetches(i) ==
    Cardinality({k \in 1..Len(ret.args.lookups.refetched) :
                    ret.args.lookups.refetched[k] = i})

\* C23: when news is ingested for a topic, an article whose content is blank
\* or carries a truncation marker is re-fetched from its URL exactly once,
\* and its content becomes the fetched text, or the description if the
\* re-fetch fails; an article with complete content is never re-fetched.
\* Violated: only ingest_from_news_api re-fetches; ingest_news_topic hands
\* the truncated content on as it is.
C23_TruncatedContentRefetched ==
    NewsReturned =>
        \A i \in 1..Len(ret.args.input.articles) :
            LET article == ret.args.input.articles[i]
            IN  IF NeedsRefetch(article.content)
                THEN /\ Refetches(i) = 1
                     /\ ret.args.lookups.contents[i] =
                            IF article.fetched THEN FetchedText ELSE Description
                ELSE /\ Refetches(i) = 0
                     /\ ret.args.lookups.contents[i] = article.content

FinancialReturned == ret.op = "ingest_financial_data"

\* C24: ingest_financial_data for a ticker whose company-profile lookup
\* returns an empty list returns the empty string, persists no document and
\* does not raise, whatever the other sections of the bundle hold.
\* Violated: fetch_financials returns the bundle when a quote was found, and
\* process_financial_data writes a document from the defaults.
C24_EmptyProfileIsFailure ==
    FinancialReturned /\ ret.args.input.profile = <<>>
        => ret.ok /\ ret.args.result = NoPath /\ processed.files = <<>>

(***************************************************************************)
(* Properties of Retriever.search.                                         *)
(***************************************************************************)
SearchReturned == ret.op = "search" /\ ret.ok

\* a result is the stored chunk at some position: its id, its chunk_text as
\* text, its metadata without chunk_text
ResultOf(s, result) ==
    \E i \in 1..Len(s.doc_ids) :
        /\ i <= Len(s.metadata)
        /\ result.chunk_id = s.doc_ids[i]
        /\ DictHas(s.metadata[i], "chunk_text")
        /\ result.text = DictGet(s.metadata[i], "chunk_text", "")
        /\ result.metadata = DictPop(s.metadata[i], "chunk_text")

\* C25: a search that returns gives each result's metadata without the
\* chunk_text key and that key's value as the result's text; it leaves the
\* stored doc_ids, metadata (which keeps chunk_text) and vectors as they
\* were, and the same search repeated right after returns the same results.
C25_SearchLeavesStore ==
    [][(ret'.op = "search" /\ ret'.ok /\ ret' # ret) =>
          /\ self' = self
          /\ \A i \in 1..Len(ret'.args.results) :
                /\ ~DictHas(ret'.args.results[i].metadata, "chunk_text")
                /\ ResultOf(self', ret'.args.results[i])
          /\ (SearchReturned /\ ret.args.query = ret'.args.query
                             /\ ret.args.top_k = ret'.args.top_k)
                => ret'.args.results = ret.args.results]_vars

\* C25 witness: a search returned two results, each with its text, from a
\* store whose metadata still holds chunk_text.
C25_Witness ==
    /\ SearchReturned
    /\ Len(ret.args.results) = 2
    /\ \A i \in 1..2 : ret.args.results[i].text \in Texts
    /\ \A i \in 1..Len(self.metadata) : DictHas(self.metadata[i], "chunk_text")

(***************************************************************************)
(* Properties of the window edges of chunk_text.                           *)
(***************************************************************************)
RawEdge(window) == Min(window.start + ck.chunk_size, Len(ck.text))

\* the edge lands on a word boundary: the character at the edge is a space
OnWordBoundary(edge) == ck.text[edge + 1] = " "

LastSentenceEnd(window) ==
    Max(RFind(ck.text, <<".", " ">>, window.start, RawEdge(window)),
        Max(RFind(ck.text, <<"?", " ">>, window.start, RawEdge(window)),
            RFind(ck.text, <<"!", " ">>, window.start, RawEdge(window))))

LastSpace(window) == RFind(ck.text, <<" ">>, window.start, RawEdge(window))

\* C26: a window whose raw right edge falls strictly inside the text is cut
\* at the raw edge when the edge lands on a word boundary; otherwise just
\* after the last sentence end ('. ', '? ', '! ') found after the window
\* start, else at the last space after the window start, else at the raw
\* edge.
\* Violated: ingest.py backs off without looking at the character at the
\* edge, and app/api.py never looks for a sentence end.
C26_WindowEdgeBacksOff ==
    \A k \in 1..Len(ck.windows) :
        LET window == ck.windows[k]
            edge == RawEdge(window)
        IN  edge < Len(ck.text) =>
                window.end =
                    IF OnWordBoundary(edge) THEN edge
                    ELSE IF LastSentenceEnd(window) > window.start
                    THEN LastSentenceEnd(window) + 1
                    ELSE IF LastSpace(window) > window.start THEN LastSpace(window)
                    ELSE edge

ChunkingLooped == ck.pc = "returned" /\ Len(ck.text) > ck.chunk_size

\* the windows that reach the end of the text
ReachingEnd == {k \in 1..Len(ck.windows) : ck.windows[k].end = Len(ck.text)}

FirstReachingEnd == CHOOSE k \in ReachingEnd : \A j \in ReachingEnd : k <= j

WindowLen(k) == ck.windows[k].end - ck.windows[k].start

\* C27: for overlap > 0 and a text longer than chunk_size, when the window
\* that first reaches the end of the text is longer than overlap, chunk_text
\* emits exactly one more window, the last `overlap` characters of the text.
\* That window lies inside the preceding one, so its chunk (the window, in
\* ingest.py stripped of surrounding whitespace) holds no character that was
\* not covered before.
C27_TailWindowRepeatsOverlap ==
    (ChunkingLooped /\ ck.overlap > 0 /\ ReachingEnd # {}
                    /\ WindowLen(FirstReachingEnd) > ck.overlap) =>
        LET last == FirstReachingEnd + 1
        IN  /\ Len(ck.windows) = last
            /\ ck.windows[last] = [start |-> Len(ck.text) - ck.overlap,
                                   end |-> Len(ck.text)]
            /\ ck.windows[last].start > ck.windows[last - 1].start
            /\ ck.windows[last].end = ck.windows[last - 1].end
            /\ ck.chunks[last] =
                   LET tail == Slice(ck.text, Len(ck.text) - ck.overlap, Len(ck.text))
                   IN  IF ck.impl = "ingest" THEN Strip(tail) ELSE tail

\* C27 witness: a call with overlap 2 returned three windows, the second
\* reached the end of the text and was longer than the overlap, and the third
\* is the last two characters.
C27_Witness ==
    /\ ChunkingLooped
    /\ ck.overlap = 2
    /\ Len(ck.windows) = 3
    /\ FirstReachingEnd = 2
    /\ WindowLen(2) > ck.overlap
    /\ WindowLen(3) = 2

(***************************************************************************)
(* Properties of the store of the HTTP service.                            *)
(***************************************************************************)
ApiLockstep(a) ==
    Len(a.chunks) = Len(a.metadata) /\ Len(a.metadata) = ntotal(a.index)

\* the texts the handler may have chunked for a body
TextsOf(body) ==
    {body.text : f \in body.fields \cap {"text"}}
        \cup {PageText(body.url) : f \in body.fields \cap {"url"}}

\* C28: after every request len(chunks) = len(metadata) = the number of
\* vectors of the index. A POST /ingest that fails while embedding its k-th
\* chunk keeps its first k-1 chunks in the store and leaves last_ingest as
\* it was; last_ingest changes only in an ingest that succeeds.
C28_StoreLockstepNoRollback ==
    [][/\ ApiLockstep(app')
       /\ (app'.requests # app.requests /\ app'.response.endpoint = "ingest"
              /\ app'.response.status = 500) =>
             /\ \E text \in TextsOf(app'.response.request) :
                   /\ app'.response.added < Len(ApiChunkText(text, app.env))
                   /\ app'.chunks = app.chunks
                         \o SubSeq(ApiChunkText(text, app.env), 1, app'.response.added)
             /\ app'.last_ingest_time = app.last_ingest_time
       /\ app'.last_ingest_time # app.last_ingest_time =>
             app'.response.endpoint = "ingest" /\ app'.response.status = 200]_vars

\* C28 witness: the first ingest failed on its second chunk: the answer is
\* 500, one chunk, one metadata entry and one vector are stored, and
\* last_ingest is still None.
C28_Witness ==
    /\ IngestAnswered
    /\ app.response.status = 500
    /\ app.response.added = 1
    /\ Len(app.chunks) = 1 /\ Len(app.metadata) = 1 /\ ntotal(app.index) = 1
    /\ app.last_ingest_time = <<>>

\* what a Retriever constructed now would read from the two files
OnDisk(dsk) ==
    IF dsk.index_file.state = "whole" /\ dsk.metadata_file.state = "whole"
    THEN [doc_ids |-> JsonLoadDocIds(dsk.metadata_file.content),
          metadata |-> JsonLoadMetadata(dsk.metadata_file.content),
          xb |-> dsk.index_file.content.xb]
    ELSE NothingPersisted

Other(t) == CHOOSE u \in Threads : u # t

RunReturned == ret.op = "run_task"

RECURSIVE SumTokens(_, _)
SumTokens(body, k) == IF k = 0 THEN 0 ELSE body[k].tokens + SumTokens(body, k - 1)

\* the step types one run records, in order
StepTypesOfRun(body) ==
    <<"task_start">> \o [i \in 1..Len(body) |-> body[i].step_type]
        \o <<"final_output", "task_complete">>

\* C30: the result of run_task reports that run alone, for any number of
\* run_task calls on the one runner the API keeps per framework: its steps
\* are the steps recorded during the run, numbered step_id 1..n in order, and
\* its token_usage is the sum of the token updates of the run.
\* Violated: steps and token_usage are set in __init__ only; run_task does
\* not reset them, so the second result of a runner repeats the first run.
C30_ResultReportsOnlyThisRun ==
    RunReturned =>
        LET result == ret.args.result
            types == StepTypesOfRun(ret.args.body)
        IN  /\ Len(result.steps) = Len(types)
            /\ \A i \in 1..Len(types) :
                  i <= Len(result.steps) =>
                      /\ result.steps[i].step_id = i
                      /\ result.steps[i].step_type = types[i]
            /\ result.steps[1].data = ret.args.topic
            /\ result.token_usage = SumTokens(ret.args.body, Len(ret.args.body))

====
